---- MODULE Spec2Model ----
(***************************************************************************)
(* A model of contour's notification primitive (contour.Cond), of the      *)
(* discovery streams that wait on it, and of the event handler's holdoff   *)
(* loop (contour.EventHandler.run), all of src/internal/contour/cond.go.   *)
(*                                                                         *)
(* Two state machines share the module:                                    *)
(*   Spec    Cond with its callers: discovery streams, a one-shot caller   *)
(*           of Register and the publishers calling Notify;                *)
(*   SpecEH  the run loop of the EventHandler with its clock, its timer,   *)
(*           the producers of events and the caches it rebuilds            *)
(*           (FairSpecEH adds the fairness of the Go scheduler).           *)
(***************************************************************************)
EXTENDS Integers, Sequences, FiniteSets, TLC

\* ------------------------------------------------------------------ bounds

\* Notify is called at most MaxVersion times (c.last is a Go int).
MaxVersion == 3

\* A route has at most MaxClusters clusters.
MaxClusters == 3

\* Capacity of a waiter's channel: the stream makes it with capacity 1.
ChanCap == 1

\* The discovery streams, each with a channel of its own.
Streams == {"s1", "s2"}

\* A caller that registers a channel once and never reads it.
OneShot == {"r1"}

Channels == Streams \cup OneShot

\* The strings used as hints (resource names).
Hints == {"a", "b"}

HintSets == SUBSET Hints

\* The run loop receives at most MaxEvents events (seq and outstanding are Go ints).
MaxEvents == 3

\* HoldoffDelay and HoldoffMaxDelay are set by the caller, in clock ticks.
MaxHoldoffDelay == 2

MaxHoldoffMaxDelay == 2

\* Capacity of EventHandler.Sequence: make(chan int, 1).
SequenceCap == 1

\* The annotations that name the ingress class, in the order ingressClass
\* looks them up.
AnnotationKeys ==
    <<"projectcontour.io/ingress.class",
      "contour.heptio.com/ingress.class",
      "kubernetes.io/ingress.class">>

NoAnnotations == [k \in {} |-> ""]

\* An Ingress: its metadata, the service of Spec.Backend (none when nil), the
\* services of the paths of its HTTP rules, the SecretNames of Spec.TLS, and
\* the rest of its spec.
Ingress(n, a, sp) ==
    [kind |-> "Ingress", namespace |-> "default", name |-> n, rv |-> 1,
     annotations |-> a, spec |-> sp, backend |-> {}, host |-> "*", paths |-> {},
     tls |-> {}]

\* The objects of the events of SpecEH: Ingresses of one name, without an
\* ingress-class annotation or with that of another controller.
Names == {"kuard"}

Classes == {NoAnnotations, [k \in {AnnotationKeys[3]} |-> "other"]}

Specs == {1}

Objects == {Ingress(n, a, sp) : n \in Names, a \in Classes, sp \in Specs}

\* opAdd, opUpdate and opDelete.
Ops ==
    [type : {"add", "delete"}, obj : Objects]
        \cup [type : {"update"}, oldObj : Objects, newObj : Objects]

\* An IngressRoute or HTTPProxy (kind k) with the status st, as the status
\* writer sets it, and the resourceVersion rv, which every write changes; the
\* services of its routes and of Spec.TCPProxy (none when nil), and the
\* SecretName of Spec.VirtualHost.TLS (none when either is nil).
Root(k, st, rv) ==
    [kind |-> k, namespace |-> "default", name |-> "kuard", rv |-> rv,
     annotations |-> NoAnnotations, spec |-> 1, fqdn |-> "", routes |-> {},
     permitInsecure |-> {}, tcpproxy |-> {}, tls |-> {}, status |-> st]

Statuses == {"valid", "invalid"}

ResourceVersions == {1, 2}

Roots ==
    {Root(k, st, rv) : k \in {"IngressRoute", "HTTPProxy"},
                       st \in Statuses, rv \in ResourceVersions}

\* The adds of roots, and the updates of a root whose old and new objects
\* differ in status or resourceVersion and in nothing else.
StatusOps ==
    [type : {"add"}, obj : Roots]
    \cup {o \in [type : {"update"}, oldObj : Roots, newObj : Roots] :
              /\ o.oldObj.kind = o.newObj.kind
              /\ o.oldObj # o.newObj}

VARIABLES
    \* ---- Cond
    last,        \* Cond.last: the count of the calls of Notify
    waiters,     \* Cond.waiters: registered channel -> its hints
    ch,          \* the buffer of each channel
    blocked,     \* the operation stuck in a send while holding Cond.mu, or "none"
    \* ---- the callers of Cond
    pc,          \* the position of each stream / one-shot caller
    lastVersion, \* the stream's local last: the version it last received
    seen,        \* history: the versions delivered to the stream, in order
    op,          \* history: the operation of the last step, with its arguments
    \* ---- EventHandler
    HoldoffDelay,    \* EventHandler.HoldoffDelay
    HoldoffMaxDelay, \* EventHandler.HoldoffMaxDelay
    since,       \* time.Since(e.last), counted up to HoldoffMaxDelay + 1
    outstanding, \* run's outstanding
    timer,       \* run's timer: its state and the ticks left until it fires
    pending,     \* run's pending: TRUE when it is timer.C, FALSE when nil
    seq,         \* EventHandler.seq
    Sequence,    \* the buffer of EventHandler.Sequence
    nilSequence, \* TRUE when EventHandler.Sequence is nil
    store,       \* Builder.Source: the KubernetesCache, (kind, namespace, name) -> object
    IngressClass, \* KubernetesCache.IngressClass
    cacheContent, \* what the CacheHandler got from the last rebuild
    loop,        \* the position of run: "select" or "returned"
    stop,        \* TRUE once the stop channel is closed
    \* ---- history of the run loop
    step,        \* the branch the last iteration took and what it logged
    nEvents,     \* events received from e.update
    accepted,    \* events for which onUpdate returned true
    reflected,   \* the value of accepted at the last rebuild
    builds,      \* calls of updateDAG
    statusLog,   \* the statuses of the last updateDAG, the writes made, those that failed
    \* ---- history of the KubernetesCache
    kcOp,        \* the last call of Insert or Remove: its object and its result
    DisablePermitInsecure, \* EventHandler.DisablePermitInsecure (Builder option)
    values,      \* the route cache: name -> route configuration
    resp,        \* the last discovery response: the names asked for, the resources
    route,       \* a dag.Route handed to envoy.RouteRoute
    ra,          \* the RouteAction RouteRoute made of it
    \* ---- the goroutines that call OnAdd, OnUpdate and OnDelete
    ppc,         \* the position of each producer: "idle", "sending" or "done"
    sent,        \* the number of events of each producer the loop has received
    cur,         \* the op the loop holds, with its producer and its number
    active,      \* the tasks inside Insert, Remove or Build at this moment
    applied,     \* history: the events applied to the store, in order
    \* ---- the resourceEventHandler of the feature tests
    waiting,     \* TRUE while it is in `<-r.EventHandler.Sequence`
    informer,    \* history: the object last delivered under each key
    event        \* history: the op it handed over last

condVars == <<last, waiters, ch, blocked, pc, lastVersion, seen, op>>

ehVars == <<HoldoffDelay, HoldoffMaxDelay, since, outstanding, timer, pending,
            seq, Sequence, nilSequence, store, IngressClass, cacheContent,
            loop, stop, step, nEvents, accepted, reflected, builds, statusLog>>

\* The fields of the EventHandler and its cache that are set before Start.
config == <<IngressClass, nilSequence, HoldoffDelay, HoldoffMaxDelay>>

kcVars == <<kcOp>>

envoyVars == <<DisablePermitInsecure, values, resp, route, ra>>

producerVars == <<ppc, sent, cur, active, applied>>

handlerVars == <<waiting, informer, event>>

vars == <<condVars, ehVars, kcVars, envoyVars, producerVars, handlerVars>>

\* ------------------------------------------------------------------- Cond

NoOp == [name |-> "init", ch |-> "-", last |-> 0, hints |-> {}]

Op(n, c, l, h) == [name |-> n, ch |-> c, last |-> l, hints |-> h]

\* ch <- v under the mutex: the send completes when the buffer has room and
\* otherwise never returns, the mutex held.
CanSend(c) == Len(ch[c]) < ChanCap

\* Register as written with <= for <.
RegisterLE(c, l, h) ==
    /\ blocked = "none"
    /\ IF l <= last
       THEN /\ IF CanSend(c)
               THEN ch' = [ch EXCEPT ![c] = Append(@, last)] /\ blocked' = blocked
               ELSE ch' = ch /\ blocked' = "Register"
            /\ waiters' = waiters
       ELSE /\ waiters' = [x \in DOMAIN waiters \cup {c} |->
                              IF x = c THEN h ELSE waiters[x]]
            /\ ch' = ch
            /\ blocked' = blocked
    /\ last' = last

\* Register without the immediate send: the caller is always enqueued.
RegisterEnqueue(c, l, h) ==
    /\ blocked = "none"
    /\ waiters' = [x \in DOMAIN waiters \cup {c} |->
                      IF x = c THEN h ELSE waiters[x]]
    /\ ch' = ch
    /\ blocked' = blocked
    /\ last' = last

\* Register without the return after the immediate send.
RegisterNoReturn(c, l, h) ==
    /\ blocked = "none"
    /\ IF l < last
       THEN IF CanSend(c)
            THEN ch' = [ch EXCEPT ![c] = Append(@, last)] /\ blocked' = blocked
            ELSE ch' = ch /\ blocked' = "Register"
       ELSE ch' = ch /\ blocked' = blocked
    /\ waiters' = [x \in DOMAIN waiters \cup {c} |->
                      IF x = c THEN h ELSE waiters[x]]
    /\ last' = last

\* func (c *Cond) Register(ch chan int, last int, hints ...string)
Register(c, l, h) ==
    /\ blocked = "none"
    /\ IF l < last
       THEN /\ IF CanSend(c)
               THEN ch' = [ch EXCEPT ![c] = Append(@, last)] /\ blocked' = blocked
               ELSE ch' = ch /\ blocked' = "Register"
            /\ waiters' = waiters
       ELSE /\ waiters' = [x \in DOMAIN waiters \cup {c} |->
                              IF x = c THEN h ELSE waiters[x]]
            /\ ch' = ch
            /\ blocked' = blocked
    /\ last' = last

\* The waiters a Notify(h) sends to: no hints, or a hint in common.
Matches(h) ==
    {c \in DOMAIN waiters : waiters[c] = {} \/ waiters[c] \cap h # {}}

\* The effect of Notify's loop on the waiters in `to`, the version being v;
\* stuck is TRUE when the loop reached a waiter whose buffer is full.
Deliver(to, v, stuck) ==
    /\ ch' = [c \in Channels |-> IF c \in to THEN Append(ch[c], v) ELSE ch[c]]
    /\ waiters' = [c \in DOMAIN waiters \ to |-> waiters[c]]
    /\ blocked' = IF stuck THEN "Notify" ELSE blocked

\* Notify sending to every waiter, whatever the hints.
NotifyAll(h) ==
    /\ blocked = "none"
    /\ last' = last + 1
    /\ LET full == {c \in DOMAIN waiters : ~CanSend(c)}
       IN  IF full = {}
           THEN Deliver(DOMAIN waiters, last + 1, FALSE)
           ELSE \E done \in SUBSET (DOMAIN waiters \ full) :
                    Deliver(done, last + 1, TRUE)

\* Notify with c.last++ inside the loop: one increment per waiter served.
NotifyIncPerWaiter(h) ==
    /\ blocked = "none"
    /\ last' = last + Cardinality(Matches(h))
    /\ LET full == {c \in Matches(h) : ~CanSend(c)}
       IN  IF full = {}
           THEN Deliver(Matches(h), last + 1, FALSE)
           ELSE \E done \in SUBSET (Matches(h) \ full) :
                    Deliver(done, last + 1, TRUE)

\* func (c *Cond) Notify(hints ...string): the map is ranged over in any
\* order, so a send that blocks may come after any of the other sends.
Notify(h) ==
    /\ blocked = "none"
    /\ last' = last + 1
    /\ LET full == {c \in Matches(h) : ~CanSend(c)}
       IN  IF full = {}
           THEN Deliver(Matches(h), last + 1, FALSE)
           ELSE \E done \in SUBSET (Matches(h) \ full) :
                    Deliver(done, last + 1, TRUE)

\* ------------------------------------------------- the callers of Cond

\* The stream loop: r.Register(ch, last, req.ResourceNames...), then the select.
StreamRegister(s, h) ==
    /\ pc[s] = "request"
    /\ Register(s, lastVersion[s], h)
    /\ pc' = [pc EXCEPT ![s] = "select"]
    /\ op' = Op("StreamRegister", s, lastVersion[s], h)
    /\ UNCHANGED <<lastVersion, seen, ehVars, kcVars, envoyVars, handlerVars, producerVars>>

\* case last = <-ch: the response is sent and the loop waits for a request.
StreamReceive(s) ==
    /\ pc[s] = "select"
    /\ ch[s] # <<>>
    /\ lastVersion' = [lastVersion EXCEPT ![s] = Head(ch[s])]
    /\ seen' = [seen EXCEPT ![s] = Append(@, Head(ch[s]))]
    /\ ch' = [ch EXCEPT ![s] = Tail(@)]
    /\ pc' = [pc EXCEPT ![s] = "request"]
    /\ op' = Op("StreamReceive", s, Head(ch[s]), {})
    /\ UNCHANGED <<last, waiters, blocked, ehVars, kcVars, envoyVars, handlerVars, producerVars>>

\* case <-ctx.Done(): the loop returns.  Cond has no operation but Notify
\* that takes a channel out of waiters, so the stream calls none.
StreamCancel(s) ==
    /\ pc[s] \in {"request", "select"}
    /\ pc' = [pc EXCEPT ![s] = "done"]
    /\ op' = Op("StreamCancel", s, lastVersion[s], {})
    /\ UNCHANGED <<last, waiters, ch, blocked, lastVersion, seen, ehVars, kcVars, envoyVars, handlerVars, producerVars>>

\* A single call Register(ch, l, h) on a fresh channel that is never read.
OneShotRegister(r, l, h) ==
    /\ pc[r] = "request"
    /\ Register(r, l, h)
    /\ pc' = [pc EXCEPT ![r] = "registered"]
    /\ op' = Op("Register", r, l, h)
    /\ UNCHANGED <<lastVersion, seen, ehVars, kcVars, envoyVars, handlerVars, producerVars>>

\* A publisher: a cache's Update, or the endpoints translator, calls Notify.
Publish(h) ==
    /\ last < MaxVersion
    /\ Notify(h)
    /\ op' = Op("Notify", "-", 0, h)
    /\ UNCHANGED <<pc, lastVersion, seen, ehVars, kcVars, envoyVars, handlerVars, producerVars>>

InitCond ==
    /\ last = 0
    /\ waiters = <<>>
    /\ ch = [c \in Channels |-> <<>>]
    /\ blocked = "none"
    /\ pc = [c \in Channels |-> "request"]
    /\ lastVersion = [s \in Streams |-> 0]
    /\ seen = [s \in Streams |-> <<>>]
    /\ op = NoOp

\* ---------------------------------------------------- the object store

DEFAULT_INGRESS_CLASS == "contour"

\* The key of an object in the maps of the KubernetesCache: the map of its
\* kind, and toMeta(obj).
Key(obj) == [kind |-> obj.kind, namespace |-> obj.namespace, name |-> obj.name]

\* kc.<map>[m] = obj
Put(kc, obj) ==
    [k \in DOMAIN kc \cup {Key(obj)} |-> IF k = Key(obj) THEN obj ELSE kc[k]]

\* The objects of kc of the kinds ks.
OfKinds(kc, ks) == {kc[k] : k \in {x \in DOMAIN kc : x.kind \in ks}}

\* ingressClass that looks the three annotations up in the reverse order.
ingressClassLastFirst(o) ==
    IF AnnotationKeys[3] \in DOMAIN o.annotations
    THEN o.annotations[AnnotationKeys[3]]
    ELSE IF AnnotationKeys[2] \in DOMAIN o.annotations
    THEN o.annotations[AnnotationKeys[2]]
    ELSE IF AnnotationKeys[1] \in DOMAIN o.annotations
    THEN o.annotations[AnnotationKeys[1]]
    ELSE ""

\* dag.ingressClass: the value of the first ingress-class annotation present.
ingressClass(o) ==
    IF AnnotationKeys[1] \in DOMAIN o.annotations
    THEN o.annotations[AnnotationKeys[1]]
    ELSE IF AnnotationKeys[2] \in DOMAIN o.annotations
    THEN o.annotations[AnnotationKeys[2]]
    ELSE IF AnnotationKeys[3] \in DOMAIN o.annotations
    THEN o.annotations[AnnotationKeys[3]]
    ELSE ""

\* kc.ingressClass(): stringOrDefault(kc.IngressClass, DEFAULT_INGRESS_CLASS).
kcIngressClass ==
    IF IngressClass = "" THEN DEFAULT_INGRESS_CLASS ELSE IngressClass

\* serviceTriggersRebuild without the `Namespace != service.Namespace` tests.
serviceTriggersRebuildAnyNamespace(kc, service) ==
    \/ \E ingress \in OfKinds(kc, {"Ingress"}) :
           \/ service.name \in ingress.backend
           \/ service.name \in ingress.paths
    \/ \E ir \in OfKinds(kc, {"IngressRoute", "HTTPProxy"}) :
           \/ service.name \in ir.routes
           \/ service.name \in ir.tcpproxy

\* KubernetesCache.serviceTriggersRebuild: an Ingress of the service's
\* namespace names it in its backend or in a path of an HTTP rule, or an
\* IngressRoute or HTTPProxy of that namespace in a route or in its TCPProxy.
serviceTriggersRebuild(kc, service) ==
    \/ \E ingress \in OfKinds(kc, {"Ingress"}) :
           /\ ingress.namespace = service.namespace
           /\ \/ service.name \in ingress.backend
              \/ service.name \in ingress.paths
    \/ \E ir \in OfKinds(kc, {"IngressRoute", "HTTPProxy"}) :
           /\ ir.namespace = service.namespace
           /\ \/ service.name \in ir.routes
              \/ service.name \in ir.tcpproxy

\* The map delegations of secretTriggersRebuild: "targetnamespace/secretname".
Delegations(kc) ==
    UNION {{n \o "/" \o cd.secretName : n \in cd.targetNamespaces} :
              cd \in UNION {d.delegations :
                               d \in OfKinds(kc, {"IRDelegation", "ProxyDelegation"})}}

\* KubernetesCache.secretTriggersRebuild.
secretTriggersRebuild(kc, secret) ==
    \/ "ca.crt" \in secret.data
    \/ \E o \in OfKinds(kc, {"Ingress", "IngressRoute", "HTTPProxy"}) :
           \/ o.namespace = secret.namespace /\ secret.name \in o.tls
           \/ /\ (o.namespace \o "/" \o secret.name) \in Delegations(kc)
              /\ (secret.namespace \o "/" \o secret.name) \in o.tls
           \/ /\ ("*/" \o secret.name) \in Delegations(kc)
              /\ (secret.namespace \o "/" \o secret.name) \in o.tls

\* Insert without the check for service account tokens.
InsertIfChanged(kc, obj) ==
    [ok |-> Put(kc, obj) # kc, kc |-> Put(kc, obj)]

InsertNoTokenCheck(kc, obj) ==
    CASE obj.kind = "Secret" ->
            IF obj.type # "kubernetes.io/tls" /\ "ca.crt" \notin obj.data
            THEN [ok |-> FALSE, kc |-> kc]
            ELSE [ok |-> secretTriggersRebuild(Put(kc, obj), obj),
                  kc |-> Put(kc, obj)]
      [] obj.kind = "Service" ->
            [ok |-> serviceTriggersRebuild(Put(kc, obj), obj),
             kc |-> Put(kc, obj)]
      [] obj.kind \in {"Ingress", "IngressRoute", "HTTPProxy"} ->
            IF ingressClass(obj) # "" /\ ingressClass(obj) # kcIngressClass
            THEN [ok |-> FALSE, kc |-> kc]
            ELSE [ok |-> TRUE, kc |-> Put(kc, obj)]
      [] obj.kind \in {"IRDelegation", "ProxyDelegation"} ->
            [ok |-> TRUE, kc |-> Put(kc, obj)]
      [] OTHER -> [ok |-> FALSE, kc |-> kc]

\* Insert that deletes the entry of the object's key when it rejects it.
InsertEvict(kc, obj) ==
    LET without == [k \in DOMAIN kc \ {Key(obj)} |-> kc[k]]
    IN  CASE obj.kind = "Secret" ->
                IF obj.type = "kubernetes.io/service-account-token"
                THEN [ok |-> FALSE, kc |-> without]
                ELSE IF obj.type # "kubernetes.io/tls" /\ "ca.crt" \notin obj.data
                THEN [ok |-> FALSE, kc |-> without]
                ELSE [ok |-> secretTriggersRebuild(Put(kc, obj), obj),
                      kc |-> Put(kc, obj)]
          [] obj.kind = "Service" ->
                [ok |-> serviceTriggersRebuild(Put(kc, obj), obj),
                 kc |-> Put(kc, obj)]
          [] obj.kind \in {"Ingress", "IngressRoute", "HTTPProxy"} ->
                IF ingressClass(obj) # "" /\ ingressClass(obj) # kcIngressClass
                THEN [ok |-> FALSE, kc |-> without]
                ELSE [ok |-> TRUE, kc |-> Put(kc, obj)]
          [] obj.kind \in {"IRDelegation", "ProxyDelegation"} ->
                [ok |-> TRUE, kc |-> Put(kc, obj)]
          [] OTHER -> [ok |-> FALSE, kc |-> kc]

\* KubernetesCache.Insert: the result and the cache after it.
Insert(kc, obj) ==
    CASE obj.kind = "Secret" ->
            IF obj.type = "kubernetes.io/service-account-token"
            THEN [ok |-> FALSE, kc |-> kc]
            ELSE IF obj.type # "kubernetes.io/tls" /\ "ca.crt" \notin obj.data
            THEN [ok |-> FALSE, kc |-> kc]
            ELSE [ok |-> secretTriggersRebuild(Put(kc, obj), obj),
                  kc |-> Put(kc, obj)]
      [] obj.kind = "Service" ->
            [ok |-> serviceTriggersRebuild(Put(kc, obj), obj),
             kc |-> Put(kc, obj)]
      [] obj.kind \in {"Ingress", "IngressRoute", "HTTPProxy"} ->
            IF ingressClass(obj) # "" /\ ingressClass(obj) # kcIngressClass
            THEN [ok |-> FALSE, kc |-> kc]
            ELSE [ok |-> TRUE, kc |-> Put(kc, obj)]
      [] obj.kind \in {"IRDelegation", "ProxyDelegation"} ->
            [ok |-> TRUE, kc |-> Put(kc, obj)]
      [] OTHER -> [ok |-> FALSE, kc |-> kc]

removeNoDelete(kc, obj) ==
    IF obj.kind \in {"Secret", "Service", "Ingress", "IngressRoute", "HTTPProxy",
                     "IRDelegation", "ProxyDelegation"}
    THEN [ok |-> Key(obj) \in DOMAIN kc, kc |-> kc]
    ELSE [ok |-> FALSE, kc |-> kc]

\* kc.remove(obj): the entry of obj's kind, namespace and name is deleted, and
\* the result says whether it was there; false for any other type.
remove(kc, obj) ==
    IF obj.kind \in {"Secret", "Service", "Ingress", "IngressRoute", "HTTPProxy",
                     "IRDelegation", "ProxyDelegation"}
    THEN [ok |-> Key(obj) \in DOMAIN kc,
          kc |-> [k \in DOMAIN kc \ {Key(obj)} |-> kc[k]]]
    ELSE [ok |-> FALSE, kc |-> kc]

\* cache.DeletedFinalStateUnknown: the tombstone an informer hands over when it
\* missed the delete event; Obj is the last known state of the object.
DeletedFinalStateUnknown(o) == [kind |-> "DeletedFinalStateUnknown", Obj |-> o]

RECURSIVE Remove(_, _)
\* kc.Remove(obj): a tombstone is unwrapped, by a call of Remove itself, and
\* everything else goes to remove.
Remove(kc, obj) ==
    IF obj.kind = "DeletedFinalStateUnknown"
    THEN Remove(kc, obj.Obj)
    ELSE remove(kc, obj)

\* ------------------------------------- the cache called on its own

SecretTypes == {"kubernetes.io/tls", "Opaque", "kubernetes.io/service-account-token"}

SecretData == SUBSET {"ca.crt", "tls.crt"}

Secret(t, d) ==
    [kind |-> "Secret", namespace |-> "default", name |-> "secret", rv |-> 1,
     type |-> t, data |-> d]

Service(n) ==
    [kind |-> "Service", namespace |-> "default", name |-> n, rv |-> 1]

\* The objects of SpecKC: the secrets of every type and content, a service,
\* and the Ingresses that name the service, the secret, both or neither.
KCObjects ==
    {Secret(t, d) : t \in SecretTypes, d \in SecretData}
    \cup {Service("kuard")}
    \cup {[Ingress("kuard", NoAnnotations, 1) EXCEPT !.paths = sv, !.tls = tl] :
              sv \in SUBSET {"kuard"}, tl \in SUBSET {"secret"}}

\* The variables the cache does not touch.
loopVars == <<since, outstanding, timer, pending, seq, Sequence, cacheContent,
              loop, stop, step, nEvents, accepted, reflected, builds, statusLog>>

\* A caller's kc.Insert(obj).
\* Whether the call of the operation n on obj repeats the call before it.
Again(n, obj) == kcOp.name = n /\ kcOp.obj = obj

\* The tombstones handed to Remove.
KCTombstones == {DeletedFinalStateUnknown(o) : o \in KCObjects}

KCInsert(obj) ==
    /\ store' = Insert(store, obj).kc
    /\ kcOp' = [name |-> "Insert", obj |-> obj, ok |-> Insert(store, obj).ok,
                again |-> Again("Insert", obj)]
    /\ UNCHANGED <<condVars, config, loopVars, producerVars, envoyVars, handlerVars>>

\* A caller's kc.Remove(obj).
KCRemove(obj) ==
    /\ store' = Remove(store, obj).kc
    /\ kcOp' = [name |-> "Remove", obj |-> obj, ok |-> Remove(store, obj).ok,
                again |-> Again("Remove", obj)]
    /\ UNCHANGED <<condVars, config, loopVars, producerVars, envoyVars, handlerVars>>

Namespaces == {"default", "other"}

\* What an object of a store of SpecSvc says about services: it is absent, it
\* names none, it names kuard in its first place (Ingress backend, route) or
\* in its second (Ingress rule path, TCPProxy), or it names another service.
SvcModes == {"absent", "none", "first", "second", "web"}

SvcKeys == {"Ingress", "IngressRoute", "HTTPProxy"} \X Namespaces

\* The object of kind k in the namespace ns that names services as m says.
Referrer(k, ns, m) ==
    LET first == IF m = "first" THEN {"kuard"} ELSE IF m = "web" THEN {"web"} ELSE {}
        second == IF m = "second" THEN {"kuard"} ELSE {}
    IN  IF k = "Ingress"
        THEN [Ingress("kuard", NoAnnotations, 1) EXCEPT
                 !.namespace = ns, !.backend = first, !.paths = second]
        ELSE [Root(k, "valid", 1) EXCEPT
                 !.namespace = ns, !.routes = first, !.tcpproxy = second]

\* The cache that holds the objects the choice c describes.
StoreOf(objs) ==
    [k \in {Key(o) : o \in objs} |-> CHOOSE o \in objs : Key(o) = k]

SvcStores ==
    {StoreOf({Referrer(x[1], x[2], c[x]) : x \in {y \in SvcKeys : c[y] # "absent"}}) :
        c \in [SvcKeys -> SvcModes]}

\* What an object of a store of SpecSec says about secrets: it is absent, or
\* its TLS names the secret as "secret" or, from the namespace other, as
\* "default/secret".
TlsModes == {"absent", "plain", "qualified"}

TlsChoices ==
    {c \in [SvcKeys -> TlsModes] : \A x \in SvcKeys : c[x] = "qualified" => x[2] = "other"}

\* The object of kind k in the namespace ns whose TLS is as m says.
TlsReferrer(k, ns, m) ==
    LET tls == IF m = "plain" THEN {"secret"} ELSE {"default/secret"}
    IN  IF k = "Ingress"
        THEN [Ingress("kuard", NoAnnotations, 1) EXCEPT !.namespace = ns, !.tls = tls]
        ELSE [Root(k, "valid", 1) EXCEPT !.namespace = ns, !.tls = tls]

\* A TLSCertificateDelegation of the kind k (of ingressroutev1 or of
\* projectcontour) in the namespace ns: Spec.Delegations names the secret and
\* the target namespaces t.
Delegation(k, ns, t) ==
    [kind |-> k, namespace |-> ns, name |-> "delegation", rv |-> 1,
     delegations |-> {[secretName |-> "secret", targetNamespaces |-> t]}]

\* A delegation is absent, or it names the namespace other or every namespace.
DelegationModes == {"absent", "other", "*"}

DelegationKeys == {"IRDelegation", "ProxyDelegation"} \X Namespaces

SecStores ==
    {StoreOf({TlsReferrer(x[1], x[2], c[x]) : x \in {y \in SvcKeys : c[y] # "absent"}}
             \cup {Delegation(x[1], x[2], {d[x]}) :
                       x \in {y \in DelegationKeys : d[y] # "absent"}}) :
        c \in TlsChoices, d \in [DelegationKeys -> DelegationModes]}

\* The secrets put into the stores of SpecSec: a TLS secret of either
\* namespace, and one of default that holds a ca.crt.
SecSecrets ==
    {[Secret("kubernetes.io/tls", {"tls.crt"}) EXCEPT !.namespace = ns] : ns \in Namespaces}
    \cup {Secret("Opaque", {"ca.crt"})}

\* The values of an ingress-class annotation and of the configured class: the
\* empty string, the default class and another controller's.
ClassValues == {"", "contour", "linkerd"}

\* Every choice of annotations among the three keys, with every value.
AnnotationMaps ==
    UNION {[K -> ClassValues] : K \in SUBSET {AnnotationKeys[i] : i \in 1..3}}

\* The object of kind k with the annotations a.
Annotated(k, a) ==
    IF k = "Ingress"
    THEN Ingress("kuard", a, 1)
    ELSE [Root(k, "valid", 1) EXCEPT !.annotations = a]

ClassObjects ==
    {Annotated(k, a) : k \in {"Ingress", "IngressRoute", "HTTPProxy"},
                       a \in AnnotationMaps}

\* kc.Insert(obj) on a cache that is empty or holds the object obj replaces.
ClassInsert(obj) ==
    /\ DOMAIN store \subseteq {Key(obj)}
    /\ KCInsert(obj)

\* What cmp.Equal compares in onUpdate: the Status of an IngressRoute and the
\* ResourceVersion of every ObjectMeta are ignored.
Masked(o) ==
    IF o.kind = "IngressRoute"
    THEN [o EXCEPT !.status = 0, !.rv = 0]
    ELSE [o EXCEPT !.rv = 0]

\* onUpdate whose update case inserts the new object and leaves the old one.
onUpdateInsertOnly(kc, o) ==
    CASE o.type = "add" -> Insert(kc, o.obj)
      [] o.type = "update" ->
            IF Masked(o.oldObj) = Masked(o.newObj)
            THEN [ok |-> FALSE, kc |-> kc]
            ELSE Insert(kc, o.newObj)
      [] o.type = "delete" -> Remove(kc, o.obj)

\* EventHandler.onUpdate: whether the event changed the cache, and the cache.
onUpdate(kc, o) ==
    CASE o.type = "add" -> Insert(kc, o.obj)
      [] o.type = "update" ->
            IF Masked(o.oldObj) = Masked(o.newObj)
            THEN [ok |-> FALSE, kc |-> kc]
            ELSE LET removed == Remove(kc, o.oldObj)
                     insert == Insert(removed.kc, o.newObj)
                 IN  [ok |-> removed.ok \/ insert.ok, kc |-> insert.kc]
      [] o.type = "delete" -> Remove(kc, o.obj)

\* ------------------------------------------------------ EventHandler.run

NoTimer == [state |-> "nil", rem |-> 0]

\* time.NewTimer(d): it sends on C once d has elapsed.
NewTimer(d) ==
    IF d = 0 THEN [state |-> "fired", rem |-> 0]
    ELSE [state |-> "running", rem |-> d]

\* timer.Stop(): a running timer will not fire; one that has fired keeps the
\* value in its channel.
Stop(t) ==
    IF t.state = "running" THEN [state |-> "stopped", rem |-> 0] ELSE t

\* type is the kind of op of an iteration that received one, "-" otherwise.
StepOp(b, t, c, v) == [branch |-> b, type |-> t, changed |-> c, outstanding |-> v]

Step(b, c, v) == StepOp(b, "-", c, v)

\* incSequence with a plain send, `e.Sequence <- e.seq`: it waits until the
\* channel takes the value.
incSequenceSend ==
    /\ ~nilSequence
    /\ Len(Sequence) < SequenceCap
    /\ seq' = seq + 1
    /\ Sequence' = Append(Sequence, seq + 1)

\* EventHandler.incSequence: seq++ and a non-blocking send to Sequence.
incSequence ==
    /\ seq' = seq + 1
    /\ Sequence' = IF ~nilSequence /\ Len(Sequence) < SequenceCap
                   THEN Append(Sequence, seq + 1)
                   ELSE Sequence

\* dag.Statuses(): the builder computes a status for every IngressRoute and
\* HTTPProxy of the store; the statuses are named by the keys of their objects.
dagStatuses(kc) ==
    {k \in DOMAIN kc : kc[k].kind \in {"IngressRoute", "HTTPProxy"}}

\* No status written so far.
NoStatusLog == [statuses |-> {}, attempted |-> {}, failed |-> {}]

\* setStatus that returns at the first write that fails: the statuses are
\* ranged over in any order, so any of the other writes may have been made.
setStatusReturn(st) ==
    \E f \in SUBSET st :
        \E a \in SUBSET st :
            /\ IF f = {} THEN a = st ELSE Cardinality(f) = 1 /\ f \subseteq a
            /\ statusLog' = [statuses |-> st, attempted |-> a, failed |-> f]

\* EventHandler.setStatus: CRDStatus.SetStatus is called for the object of
\* each status; the call may fail (f are the ones that do), the error is
\* logged and the loop goes on.
setStatus(st) ==
    \E f \in SUBSET st :
        statusLog' = [statuses |-> st, attempted |-> st, failed |-> f]

\* updateDAG without the `e.last = time.Now()`.
updateDAGNoLast(kc, acc) ==
    /\ cacheContent' = kc
    /\ Notify({})
    /\ setStatus(dagStatuses(kc))
    /\ since' = since
    /\ builds' = builds + 1
    /\ reflected' = acc

\* EventHandler.updateDAG: build from the store kc, hand the result to the
\* CacheHandler, which notifies the waiters of its cache, write the statuses
\* and set e.last.
updateDAG(kc, acc) ==
    /\ cacheContent' = kc
    /\ Notify({})
    /\ setStatus(dagStatuses(kc))
    /\ since' = 0
    /\ builds' = builds + 1
    /\ reflected' = acc

NoRebuild ==
    UNCHANGED <<cacheContent, last, waiters, ch, blocked, since, builds, reflected, statusLog>>

\* enqueue without the `if timer != nil { timer.Stop(); pending = nil }`.
enqueueNoStop(kc, acc, t) ==
    IF since > HoldoffMaxDelay
    THEN /\ timer' = timer
         /\ pending' = pending
         /\ outstanding' = 0
         /\ updateDAG(kc, acc)
         /\ incSequence
         /\ step' = StepOp("update", t, TRUE, outstanding + 1)
    ELSE /\ timer' = NewTimer(HoldoffDelay)
         /\ pending' = TRUE
         /\ outstanding' = outstanding + 1
         /\ NoRebuild
         /\ UNCHANGED <<seq, Sequence>>
         /\ step' = StepOp("update", t, TRUE, 0)

\* enqueue that rebuilds on every event, without the holdoff.
enqueueNoHoldoff(kc, acc, t) ==
    /\ timer' = Stop(timer)
    /\ pending' = FALSE
    /\ outstanding' = 0
    /\ updateDAG(kc, acc)
    /\ incSequence
    /\ step' = StepOp("update", t, TRUE, outstanding + 1)

\* enqueue that keeps the timer already running instead of starting a new one.
enqueueKeepTimer(kc, acc, t) ==
    IF since > HoldoffMaxDelay
    THEN /\ timer' = Stop(timer)
         /\ pending' = FALSE
         /\ outstanding' = 0
         /\ updateDAG(kc, acc)
         /\ incSequence
         /\ step' = StepOp("update", t, TRUE, outstanding + 1)
    ELSE /\ timer' = IF pending THEN timer ELSE NewTimer(HoldoffDelay)
         /\ pending' = TRUE
         /\ outstanding' = outstanding + 1
         /\ NoRebuild
         /\ UNCHANGED <<seq, Sequence>>
         /\ step' = StepOp("update", t, TRUE, 0)

\* enqueue that starts the holdoff timer with HoldoffMaxDelay.
enqueueMaxDelay(kc, acc, t) ==
    IF since > HoldoffMaxDelay
    THEN /\ timer' = Stop(timer)
         /\ pending' = FALSE
         /\ outstanding' = 0
         /\ updateDAG(kc, acc)
         /\ incSequence
         /\ step' = StepOp("update", t, TRUE, outstanding + 1)
    ELSE /\ timer' = NewTimer(HoldoffMaxDelay)
         /\ pending' = TRUE
         /\ outstanding' = outstanding + 1
         /\ NoRebuild
         /\ UNCHANGED <<seq, Sequence>>
         /\ step' = StepOp("update", t, TRUE, 0)

\* enqueue that compares with HoldoffMaxDelay only when no timer is running.
enqueueNoCeiling(kc, acc, t) ==
    IF since > HoldoffMaxDelay /\ ~pending
    THEN /\ timer' = Stop(timer)
         /\ pending' = FALSE
         /\ outstanding' = 0
         /\ updateDAG(kc, acc)
         /\ incSequence
         /\ step' = StepOp("update", t, TRUE, outstanding + 1)
    ELSE /\ timer' = NewTimer(HoldoffDelay)
         /\ pending' = TRUE
         /\ outstanding' = outstanding + 1
         /\ NoRebuild
         /\ UNCHANGED <<seq, Sequence>>
         /\ step' = StepOp("update", t, TRUE, 0)

\* run's enqueue: inc(), stop the timer and clear pending, then either the
\* forced update (reset(), updateDAG, incSequence) or a new holdoff timer.
enqueue(kc, acc, t) ==
    IF since > HoldoffMaxDelay
    THEN /\ timer' = Stop(timer)
         /\ pending' = FALSE
         /\ outstanding' = 0
         /\ updateDAG(kc, acc)
         /\ incSequence
         /\ step' = StepOp("update", t, TRUE, outstanding + 1)
    ELSE /\ timer' = NewTimer(HoldoffDelay)
         /\ pending' = TRUE
         /\ outstanding' = outstanding + 1
         /\ NoRebuild
         /\ UNCHANGED <<seq, Sequence>>
         /\ step' = StepOp("update", t, TRUE, 0)

\* The update case calling enqueue whatever onUpdate returned.
RunUpdateEnqueueAll(o) ==
    /\ loop = "select"
    /\ nEvents < MaxEvents
    /\ nEvents' = nEvents + 1
    /\ LET r == onUpdate(store, o)
       IN  /\ store' = r.kc
           /\ accepted' = IF r.ok THEN accepted + 1 ELSE accepted
           /\ enqueue(r.kc, accepted', o.type)
    /\ UNCHANGED <<config, kcVars, envoyVars, handlerVars, producerVars, loop, stop,
                   pc, lastVersion, seen, op>>

\* The update case without the `else { e.incSequence() }`.
updateCaseNoSequence(o) ==
    /\ loop = "select"
    /\ nEvents < MaxEvents
    /\ nEvents' = nEvents + 1
    /\ LET r == onUpdate(store, o)
       IN  /\ store' = r.kc
           /\ IF r.ok
              THEN /\ accepted' = accepted + 1
                   /\ enqueue(r.kc, accepted + 1, o.type)
              ELSE /\ accepted' = accepted
                   /\ NoRebuild
                   /\ step' = StepOp("update", o.type, FALSE, 0)
                   /\ UNCHANGED <<timer, pending, outstanding, seq, Sequence>>
    /\ UNCHANGED <<config, kcVars, envoyVars, loop, stop,
                   pc, lastVersion, seen, op>>

\* case op := <-e.update, with the op o: onUpdate, then enqueue or incSequence.
updateCase(o) ==
    /\ loop = "select"
    /\ nEvents < MaxEvents
    /\ nEvents' = nEvents + 1
    /\ LET r == onUpdate(store, o)
       IN  /\ store' = r.kc
           /\ IF r.ok
              THEN /\ accepted' = accepted + 1
                   /\ enqueue(r.kc, accepted + 1, o.type)
              ELSE /\ accepted' = accepted
                   /\ incSequence
                   /\ NoRebuild
                   /\ step' = StepOp("update", o.type, FALSE, 0)
                   /\ UNCHANGED <<timer, pending, outstanding>>
    /\ UNCHANGED <<config, kcVars, envoyVars, loop, stop,
                   pc, lastVersion, seen, op>>

\* case op := <-e.update: a producer's OnAdd, OnUpdate or OnDelete hands o over.
RunUpdate(o) ==
    /\ updateCase(o)
    /\ UNCHANGED <<producerVars, handlerVars>>

\* case <-pending: the delayed update.
RunPending ==
    /\ loop = "select"
    /\ pending
    /\ timer.state = "fired"
    /\ timer' = [state |-> "drained", rem |-> 0]
    /\ outstanding' = 0
    /\ updateDAG(store, accepted)
    /\ incSequence
    /\ step' = Step("pending", FALSE, outstanding)
    /\ UNCHANGED <<config, kcVars, envoyVars, handlerVars, producerVars, pending, store, loop, stop,
                   nEvents, accepted, pc, lastVersion, seen, op>>

\* The stop case that rebuilds for the events outstanding before it returns.
RunStopFlush ==
    /\ loop = "select"
    /\ stop
    /\ loop' = "returned"
    /\ step' = Step("stop", FALSE, 0)
    /\ IF outstanding > 0
       THEN /\ outstanding' = 0
            /\ updateDAG(store, accepted)
            /\ incSequence
       ELSE /\ NoRebuild
            /\ UNCHANGED <<outstanding, seq, Sequence>>
    /\ UNCHANGED <<config, kcVars, envoyVars, handlerVars, producerVars, timer, pending,
                   store, stop, nEvents, accepted,
                   pc, lastVersion, seen, op>>

\* The stop case without its return: the loop goes on selecting.
RunStopContinue ==
    /\ loop = "select"
    /\ stop
    /\ loop' = loop
    /\ step' = Step("stop", FALSE, 0)
    /\ NoRebuild
    /\ UNCHANGED <<config, kcVars, envoyVars, handlerVars, producerVars, outstanding, timer, pending,
                   seq, Sequence, store, stop, nEvents, accepted,
                   pc, lastVersion, seen, op>>

\* case <-stop: run returns nil.
RunStop ==
    /\ loop = "select"
    /\ stop
    /\ loop' = "returned"
    /\ step' = Step("stop", FALSE, 0)
    /\ NoRebuild
    /\ UNCHANGED <<config, kcVars, envoyVars, handlerVars, producerVars, outstanding, timer, pending,
                   seq, Sequence, store, stop, nEvents, accepted,
                   pc, lastVersion, seen, op>>

\* The workgroup closes the stop channel.
CloseStop ==
    /\ ~stop
    /\ stop' = TRUE
    /\ step' = Step("close", FALSE, 0)
    /\ NoRebuild
    /\ UNCHANGED <<config, kcVars, envoyVars, handlerVars, producerVars, outstanding, timer, pending,
                   seq, Sequence, store, loop, nEvents, accepted,
                   pc, lastVersion, seen, op>>

\* An observer (a test) receives from Sequence.
SequenceReceive ==
    /\ Sequence # <<>>
    /\ Sequence' = Tail(Sequence)
    /\ step' = Step("observe", FALSE, 0)
    /\ NoRebuild
    /\ UNCHANGED <<config, kcVars, envoyVars, handlerVars, producerVars, outstanding, timer, pending,
                   seq, store, loop, stop, nEvents, accepted,
                   pc, lastVersion, seen, op>>

\* One tick of the clock: time.Since(e.last) grows (it is only ever compared
\* with HoldoffMaxDelay, so it is counted up to HoldoffMaxDelay + 1) and a
\* running timer comes one tick closer to firing.
Tick ==
    /\ since' = IF since > HoldoffMaxDelay THEN since ELSE since + 1
    /\ timer' = IF timer.state = "running"
                THEN IF timer.rem = 1
                     THEN [state |-> "fired", rem |-> 0]
                     ELSE [state |-> "running", rem |-> timer.rem - 1]
                ELSE timer
    /\ step' = Step("tick", FALSE, 0)
    /\ UNCHANGED <<cacheContent, last, waiters, ch, blocked, builds, reflected, statusLog>>
    /\ UNCHANGED <<config, kcVars, envoyVars, handlerVars, producerVars, outstanding, pending,
                   seq, Sequence, store, loop, stop, nEvents, accepted,
                   pc, lastVersion, seen, op>>

\* The EventHandler after Start, with the delays d and m.
InitHandler(d, m) ==
    /\ HoldoffDelay = d
    /\ HoldoffMaxDelay = m
    /\ since = 0
    /\ outstanding = 0
    /\ timer = NoTimer
    /\ pending = FALSE
    /\ seq = 0
    /\ Sequence = <<>>
    /\ cacheContent = <<>>
    /\ loop = "select"
    /\ stop = FALSE
    /\ step = Step("start", FALSE, 0)
    /\ nEvents = 0
    /\ accepted = 0
    /\ reflected = 0
    /\ builds = 0
    /\ statusLog = NoStatusLog

\* No call of the cache so far.
NoKcOp == [name |-> "-"]

\* No producer and no event so far.
NoEvent == [producer |-> "-", n |-> 0]

\* The resourceEventHandler before its first event.
InitResourceEventHandler ==
    /\ waiting = FALSE
    /\ informer = <<>>
    /\ event = NoEvent

\* Nothing but the loop calls the cache, and no goroutine sends events.
InitQuiet ==
    /\ InitResourceEventHandler
    /\ kcOp = NoKcOp
    /\ ppc = <<>>
    /\ sent = <<>>
    /\ cur = NoEvent
    /\ active = {}
    /\ applied = <<>>

\* No route translated and no discovery request answered.
NoRoute == [Clusters |-> <<>>]

NoAction == [ClusterSpecifier |-> "-"]

NoResponse == [sent |-> FALSE, names |-> {}, resources |-> {}]

InitEnvoy ==
    /\ DisablePermitInsecure = FALSE
    /\ values = <<>>
    /\ resp = NoResponse
    /\ route = NoRoute
    /\ ra = NoAction

Init ==
    /\ InitCond
    /\ InitHandler(0, 0)
    /\ store = <<>>
    /\ IngressClass = ""
    /\ nilSequence = FALSE
    /\ InitQuiet
    /\ InitEnvoy

InitEH ==
    /\ InitCond
    /\ \E d \in 0..MaxHoldoffDelay, m \in 0..MaxHoldoffMaxDelay : InitHandler(d, m)
    /\ store = <<>>
    /\ IngressClass = ""
    /\ nilSequence \in BOOLEAN
    /\ InitQuiet
    /\ InitEnvoy

NextEH ==
    \/ \E o \in Ops : RunUpdate(o)
    \/ RunPending
    \/ RunStop
    \/ CloseStop
    \/ SequenceReceive
    \/ Tick

SpecEH == InitEH /\ [][NextEH]_vars

\* The scheduler runs the loop's ready timer branch, and time passes.
FairSpecEH == SpecEH /\ WF_vars(Tick) /\ WF_vars(RunPending)

\* A closed stop channel is ready in every select from then on, and select
\* picks among its ready cases at random: the stop case is taken in the end.
FairSpecStop == SpecEH /\ WF_vars(RunStop)

\* The update case for the events of an informer: the old object of an update
\* is the object the informer delivered last, which is the stored one.
RunUpdateInformer(o) ==
    /\ o.type = "update" =>
           /\ Key(o.oldObj) \in DOMAIN store
           /\ store[Key(o.oldObj)] = o.oldObj
    /\ RunUpdate(o)

\* The run loop with fixed delays, fed with the events of StatusOps.
InitEHK ==
    /\ InitCond
    /\ InitHandler(1, 1)
    /\ store = <<>>
    /\ IngressClass = ""
    /\ nilSequence = FALSE
    /\ InitQuiet
    /\ InitEnvoy

NextEHK ==
    \/ \E o \in StatusOps : RunUpdateInformer(o)
    \/ RunPending
    \/ RunStop
    \/ CloseStop
    \/ SequenceReceive
    \/ Tick

SpecEHK == InitEHK /\ [][NextEHK]_vars

\* An empty KubernetesCache with the default ingress class, called directly.
InitKC ==
    /\ InitCond
    /\ InitHandler(0, 0)
    /\ store = <<>>
    /\ IngressClass = ""
    /\ nilSequence = FALSE
    /\ InitQuiet
    /\ InitEnvoy

NextKC ==
    \/ \E o \in KCObjects : KCInsert(o)
    \/ \E o \in KCObjects \cup KCTombstones : KCRemove(o)

SpecKC == InitKC /\ [][NextKC]_vars

\* An empty KubernetesCache with any configured ingress class.
InitClass ==
    /\ InitCond
    /\ InitHandler(0, 0)
    /\ store = <<>>
    /\ IngressClass \in ClassValues
    /\ nilSequence = FALSE
    /\ InitQuiet
    /\ InitEnvoy

NextClass ==
    \E o \in ClassObjects : ClassInsert(o)

SpecClass == InitClass /\ [][NextClass]_vars

\* The objects of SpecFilter: those of SpecKC, and an Ingress, an IngressRoute
\* and an HTTPProxy with and without the class of another controller.
FilterObjects ==
    KCObjects
    \cup {Annotated(k, a) : k \in {"Ingress", "IngressRoute", "HTTPProxy"},
                            a \in Classes}

\* An empty KubernetesCache with the default ingress class, into which
\* objects the filter accepts and objects it rejects are put.
InitFilter ==
    /\ InitCond
    /\ InitHandler(0, 0)
    /\ store = <<>>
    /\ IngressClass = ""
    /\ nilSequence = FALSE
    /\ InitQuiet
    /\ InitEnvoy

NextFilter ==
    \E o \in FilterObjects : KCInsert(o)

SpecFilter == InitFilter /\ [][NextFilter]_vars

\* A KubernetesCache that holds Ingresses, IngressRoutes and HTTPProxies of
\* two namespaces, into which the service kuard of either namespace is put.
InitSvc ==
    /\ InitCond
    /\ InitHandler(0, 0)
    /\ store \in SvcStores
    /\ IngressClass = ""
    /\ nilSequence = FALSE
    /\ InitQuiet
    /\ InitEnvoy

NextSvc ==
    \E ns \in Namespaces : KCInsert([Service("kuard") EXCEPT !.namespace = ns])

SpecSvc == InitSvc /\ [][NextSvc]_vars

\* A KubernetesCache that holds Ingresses, IngressRoutes, HTTPProxies and
\* TLSCertificateDelegations of two namespaces, into which secrets are put.
InitSec ==
    /\ InitCond
    /\ InitHandler(0, 0)
    /\ store \in SecStores
    /\ IngressClass = ""
    /\ nilSequence = FALSE
    /\ InitQuiet
    /\ InitEnvoy

NextSec ==
    \E sec \in SecSecrets : KCInsert(sec)

SpecSec == InitSec /\ [][NextSec]_vars

\* ---------------------- the resourceEventHandler of the feature tests

\* The objects of the events of SpecFeature: the Ingress kuard, with or
\* without the class of another controller, naming the service kuard and the
\* secret or neither; the service; the secret, of type tls or Opaque; the
\* IngressRoute with either status; an HTTPProxy.
FeatureObjects ==
    {[Ingress("kuard", a, 1) EXCEPT !.backend = r[1], !.tls = r[2]] :
         a \in Classes, r \in {<<{}, {}>>, <<{"kuard"}, {"secret"}>>}}
    \cup {Service("kuard")}
    \cup {Secret("kubernetes.io/tls", {"tls.crt"}), Secret("Opaque", {})}
    \cup {Root("IngressRoute", st, 1) : st \in Statuses}
    \cup {Root("HTTPProxy", "valid", 1)}

FeatureOps ==
    [type : {"add", "delete"}, obj : FeatureObjects]
    \cup {o \in [type : {"update"}, oldObj : FeatureObjects, newObj : FeatureObjects] :
              Key(o.oldObj) = Key(o.newObj)}

\* What an informer delivers for one key: OnAdd for an object it has not,
\* OnUpdate with the object it delivered last as the old one, OnDelete of the
\* object it delivered last.
WellFormed(inf, o) ==
    CASE o.type = "add" -> Key(o.obj) \notin DOMAIN inf
      [] o.type = "update" ->
            Key(o.oldObj) \in DOMAIN inf /\ inf[Key(o.oldObj)] = o.oldObj
      [] o.type = "delete" ->
            Key(o.obj) \in DOMAIN inf /\ inf[Key(o.obj)] = o.obj

\* The objects delivered last, after the event o.
Delivered(inf, o) ==
    CASE o.type = "add" -> Put(inf, o.obj)
      [] o.type = "update" -> Put(inf, o.newObj)
      [] o.type = "delete" -> [k \in DOMAIN inf \ {Key(o.obj)} |-> inf[k]]

\* resourceEventHandler.OnAdd, OnUpdate and OnDelete for an object that is no
\* Endpoints: the event goes to the EventHandler, whose loop receives it, and
\* the handler goes on to `<-r.EventHandler.Sequence`.
HandlerEvent(o) ==
    /\ ~waiting
    /\ WellFormed(informer, o)
    /\ updateCase(o)
    /\ waiting' = TRUE
    /\ informer' = Delivered(informer, o)
    /\ event' = o
    /\ UNCHANGED producerVars

\* `<-r.EventHandler.Sequence` receives, and the handler's call returns.
HandlerReceive ==
    /\ waiting
    /\ Sequence # <<>>
    /\ Sequence' = Tail(Sequence)
    /\ waiting' = FALSE
    /\ step' = Step("observe", FALSE, 0)
    /\ NoRebuild
    /\ UNCHANGED <<config, kcVars, envoyVars, producerVars, outstanding, timer, pending,
                   seq, store, loop, stop, nEvents, accepted,
                   pc, lastVersion, seen, op, informer, event>>

\* setup of the feature tests: an EventHandler with a Sequence of capacity 1
\* and an empty cache; the delays are fixed here.
InitFeature ==
    /\ InitCond
    /\ InitHandler(1, 1)
    /\ store = <<>>
    /\ IngressClass = ""
    /\ nilSequence = FALSE
    /\ InitQuiet
    /\ InitEnvoy

NextFeature ==
    \/ \E o \in FeatureOps : HandlerEvent(o)
    \/ HandlerReceive
    \/ RunPending
    \/ Tick

SpecFeature == InitFeature /\ [][NextFeature]_vars

\* setup of the feature tests with any delays, the events being those of Ops.
InitSequence ==
    /\ InitCond
    /\ \E d \in 0..MaxHoldoffDelay, m \in 0..MaxHoldoffMaxDelay : InitHandler(d, m)
    /\ store = <<>>
    /\ IngressClass = ""
    /\ nilSequence = FALSE
    /\ InitQuiet
    /\ InitEnvoy

NextSequence ==
    \/ \E o \in Ops : HandlerEvent(o)
    \/ HandlerReceive
    \/ RunPending
    \/ Tick

SpecSequence == InitSequence /\ [][NextSequence]_vars

\* Time passes, the scheduler runs the loop's ready timer branch, and the
\* handler's receive when Sequence holds a value.
FairSpecSequence ==
    SpecSequence /\ WF_vars(Tick) /\ WF_vars(RunPending) /\ WF_vars(HandlerReceive)

\* ------------------------------------- the producers and the run loop

\* The goroutines (informers) that call OnAdd, OnUpdate and OnDelete.
Producers == {"p1", "p2"}

\* The events each producer issues, in its order: one adds and deletes an
\* Ingress, the other adds one of another class and updates it to match.
Program ==
    [p \in Producers |->
        IF p = "p1"
        THEN <<[type |-> "add", obj |-> Ingress("kuard", NoAnnotations, 1)],
               [type |-> "delete", obj |-> Ingress("kuard", NoAnnotations, 1)]>>
        ELSE <<[type |-> "add",
                obj |-> Ingress("web", [k \in {AnnotationKeys[3]} |-> "other"], 1)],
               [type |-> "update",
                oldObj |-> Ingress("web", [k \in {AnnotationKeys[3]} |-> "other"], 1),
                newObj |-> Ingress("web", NoAnnotations, 1)]>>]

\* The run loop inside onUpdate (Insert, Remove) or inside updateDAG (Build).
InOnUpdate == [task |-> "run", in |-> "onUpdate"]

InBuild == [task |-> "run", in |-> "Build"]

\* OnAdd, OnUpdate or OnDelete that calls the cache itself, in the calling
\* goroutine, instead of sending the op to the loop.
ProducerCallDirect(p) ==
    /\ ppc[p] = "idle"
    /\ LET me == [task |-> p, in |-> "onUpdate"]
           n == sent[p] + 1
       IN  IF me \notin active
           THEN /\ active' = active \cup {me}
                /\ UNCHANGED <<store, applied, sent, ppc>>
           ELSE /\ active' = active \ {me}
                /\ store' = onUpdate(store, Program[p][n]).kc
                /\ applied' = Append(applied, [producer |-> p, n |-> n])
                /\ sent' = [sent EXCEPT ![p] = n]
                /\ ppc' = [ppc EXCEPT ![p] = IF n = Len(Program[p])
                                               THEN "done" ELSE "idle"]
    /\ UNCHANGED <<condVars, config, kcVars, envoyVars, handlerVars, loopVars, cur>>

\* A producer calls OnAdd, OnUpdate or OnDelete with its next event: the call
\* is in `e.update <- op` until the loop receives.
ProducerCall(p) ==
    /\ ppc[p] = "idle"
    /\ ppc' = [ppc EXCEPT ![p] = "sending"]
    /\ UNCHANGED <<condVars, config, kcVars, envoyVars, handlerVars, loopVars, store, sent, cur, active, applied>>

\* The update case that lets the sender go but keeps no op when the timer
\* has fired as well.
LoopReceiveOrTimer(p) ==
    /\ loop = "select"
    /\ ppc[p] = "sending"
    /\ sent' = [sent EXCEPT ![p] = @ + 1]
    /\ ppc' = [ppc EXCEPT ![p] = IF sent'[p] = Len(Program[p]) THEN "done" ELSE "idle"]
    /\ IF pending /\ timer.state = "fired"
       THEN UNCHANGED <<cur, loop, nEvents>>
       ELSE /\ cur' = [producer |-> p, n |-> sent'[p]]
            /\ loop' = "onUpdate"
            /\ nEvents' = nEvents + 1
    /\ UNCHANGED <<condVars, config, kcVars, envoyVars, handlerVars, store, active, applied,
                   since, outstanding, timer, pending, seq, Sequence,
                   cacheContent, stop, step, accepted, reflected, builds, statusLog>>

\* case op := <-e.update: the loop receives the op of a producer that is in
\* its send, and the producer's call returns.
LoopReceive(p) ==
    /\ loop = "select"
    /\ ppc[p] = "sending"
    /\ sent' = [sent EXCEPT ![p] = @ + 1]
    /\ ppc' = [ppc EXCEPT ![p] = IF sent'[p] = Len(Program[p]) THEN "done" ELSE "idle"]
    /\ cur' = [producer |-> p, n |-> sent'[p]]
    /\ loop' = "onUpdate"
    /\ nEvents' = nEvents + 1
    /\ UNCHANGED <<condVars, config, kcVars, envoyVars, handlerVars, store, active, applied,
                   since, outstanding, timer, pending, seq, Sequence,
                   cacheContent, stop, step, accepted, reflected, builds, statusLog>>

\* The loop enters e.onUpdate(op).
LoopBeginUpdate ==
    /\ loop = "onUpdate"
    /\ loop' = "mutating"
    /\ active' = active \cup {InOnUpdate}
    /\ UNCHANGED <<condVars, config, kcVars, envoyVars, handlerVars, store, ppc, sent, cur, applied,
                   since, outstanding, timer, pending, seq, Sequence,
                   cacheContent, stop, step, nEvents, accepted, reflected, builds, statusLog>>

\* e.onUpdate(op) returns, and the iteration goes on to enqueue (up to its
\* call of updateDAG) or to incSequence.
LoopEndUpdate ==
    /\ loop = "mutating"
    /\ active' = active \ {InOnUpdate}
    /\ applied' = Append(applied, cur)
    /\ LET r == onUpdate(store, Program[cur.producer][cur.n])
       IN  /\ store' = r.kc
           /\ IF r.ok
              THEN /\ accepted' = accepted + 1
                   /\ outstanding' = outstanding + 1
                   /\ UNCHANGED <<seq, Sequence>>
                   /\ IF since > HoldoffMaxDelay
                      THEN /\ timer' = Stop(timer)
                           /\ pending' = FALSE
                           /\ loop' = "forced"
                      ELSE /\ timer' = NewTimer(HoldoffDelay)
                           /\ pending' = TRUE
                           /\ loop' = "select"
              ELSE /\ incSequence
                   /\ loop' = "select"
                   /\ UNCHANGED <<accepted, outstanding, timer, pending>>
    /\ NoRebuild
    /\ UNCHANGED <<config, kcVars, envoyVars, handlerVars, ppc, sent, cur, stop, step, nEvents,
                   pc, lastVersion, seen, op>>

\* The loop calls reset() and enters updateDAG: after enqueue found the
\* holdoff exceeded, or on `case <-pending`.
LoopBeginBuild ==
    /\ \/ loop = "forced" /\ timer' = timer
       \/ /\ loop = "select" /\ pending /\ timer.state = "fired"
          /\ timer' = [state |-> "drained", rem |-> 0]
    /\ loop' = "building"
    /\ outstanding' = 0
    /\ active' = active \cup {InBuild}
    /\ UNCHANGED <<condVars, config, kcVars, envoyVars, handlerVars, store, ppc, sent, cur, applied,
                   since, pending, seq, Sequence,
                   cacheContent, stop, step, nEvents, accepted, reflected, builds, statusLog>>

\* updateDAG returns, and incSequence.
LoopEndBuild ==
    /\ loop = "building"
    /\ active' = active \ {InBuild}
    /\ updateDAG(store, accepted)
    /\ incSequence
    /\ loop' = "select"
    /\ UNCHANGED <<config, kcVars, envoyVars, handlerVars, store, ppc, sent, cur, applied,
                   outstanding, timer, pending, stop, step, nEvents, accepted,
                   pc, lastVersion, seen, op>>

\* Two producers and the run loop, started with an empty cache.
InitProducers ==
    /\ InitCond
    /\ InitHandler(1, 1)
    /\ store = <<>>
    /\ IngressClass = ""
    /\ nilSequence = FALSE
    /\ kcOp = NoKcOp
    /\ ppc = [p \in Producers |-> "idle"]
    /\ sent = [p \in Producers |-> 0]
    /\ cur = NoEvent
    /\ active = {}
    /\ applied = <<>>
    /\ InitEnvoy
    /\ InitResourceEventHandler

NextProducers ==
    \/ \E p \in Producers : ProducerCall(p)
    \/ \E p \in Producers : LoopReceive(p)
    \/ LoopBeginUpdate
    \/ LoopEndUpdate
    \/ LoopBeginBuild
    \/ LoopEndBuild
    \/ SequenceReceive
    \/ Tick

SpecProducers == InitProducers /\ [][NextProducers]_vars

Next ==
    \/ \E s \in Streams, h \in HintSets : StreamRegister(s, h)
    \/ \E s \in Streams : StreamReceive(s)
    \/ \E s \in Streams : StreamCancel(s)
    \/ \E r \in OneShot, l \in 0..(MaxVersion + 1), h \in HintSets :
           OneShotRegister(r, l, h)
    \/ \E h \in HintSets : Publish(h)

Spec == Init /\ [][Next]_vars

\* ------------------------------------------- envoy: the action of a route

\* The names envoy.Clustername gives two clusters, in the order of Go's
\* comparison of strings.
ClusterNames == <<"default/kuard/80/da39a3ee5e", "default/nginx/80/da39a3ee5e">>

\* a < b for two cluster names.
StringLess(a, b) ==
    \E i, j \in DOMAIN ClusterNames :
        ClusterNames[i] = a /\ ClusterNames[j] = b /\ i < j

\* The weights a cluster declares: small ones, and 2^31 - 1. They are uint32,
\* and so is their total, which wraps at 2^32.
Weights == {0, 1, 2, 2147483647}

\* A uint32 is held as its two 16-bit halves, hi * 2^16 + lo.
Half == 2^16

\* uint32(n), for an n >= 0.
UInt32(n) == [hi |-> (n \div Half) % Half, lo |-> n % Half]

\* t + w in uint32: the carry out of the high half is lost.
AddUInt32(t, w) ==
    LET lo == t.lo + (w % Half)
        hi == t.hi + (w \div Half) + (lo \div Half)
    IN  [hi |-> hi % Half, lo |-> lo % Half]

\* dag.Cluster, as weightedClusters reads it: its Clustername and its Weight.
Clusters ==
    {[Name |-> ClusterNames[i], Weight |-> w] : i \in DOMAIN ClusterNames, w \in Weights}

\* A nil pointer.
Nil == [nil |-> TRUE]

\* protobuf.Duration(d): a *duration.Duration of d nanoseconds.
Duration(d) == [nil |-> FALSE, Duration |-> d]

\* Route.TimeoutPolicy: nil, or a Timeout in nanoseconds, 0 for envoy's default
\* and -1 for infinity.
TimeoutPolicies == {Nil} \cup {[Timeout |-> d] : d \in {-2, -1, 0, 1, 90}}

\* The sequences over S of length 1..n.
SeqsUpTo(S, n) == UNION {[1..k -> S] : k \in 1..n}

\* The dag.Routes handed to RouteRoute.
Routes ==
    {[Clusters |-> c, TimeoutPolicy |-> t] :
        c \in SeqsUpTo(Clusters, MaxClusters), t \in TimeoutPolicies}

\* timeout with the cases 0 and -1 exchanged.
timeoutInverted(r) ==
    IF r.TimeoutPolicy = Nil
    THEN Nil
    ELSE CASE r.TimeoutPolicy.Timeout = -1 -> Nil
           [] r.TimeoutPolicy.Timeout = 0 -> Duration(0)
           [] OTHER -> Duration(r.TimeoutPolicy.Timeout)

timeout(r) ==
    IF r.TimeoutPolicy = Nil
    THEN Nil
    ELSE CASE r.TimeoutPolicy.Timeout = 0 -> Nil
           [] r.TimeoutPolicy.Timeout = -1 -> Duration(0)
           [] OTHER -> Duration(r.TimeoutPolicy.Timeout)

\* Less that looks at the names only.
LessByName(a, b) == StringLess(a.Name, b.Name)

\* clusterWeightByName.Less: by name, and by weight among equal names.
Less(a, b) ==
    IF a.Name = b.Name
    THEN a.Weight < b.Weight
    ELSE StringLess(a.Name, b.Name)

RECURSIVE StableInsert(_, _)
\* x put into the sorted s, behind every element that is not greater.
StableInsert(s, x) ==
    IF s = <<>> THEN <<x>>
    ELSE IF Less(x, Head(s)) THEN <<x>> \o s
    ELSE <<Head(s)>> \o StableInsert(Tail(s), x)

RECURSIVE Stable(_)
\* sort.Stable(clusterWeightByName(s)): equal elements keep their order.
Stable(s) ==
    IF s = <<>> THEN <<>>
    ELSE StableInsert(Stable(SubSeq(s, 1, Len(s) - 1)), s[Len(s)])

RECURSIVE Total(_)
\* total += cluster.Weight over the clusters, total being a uint32.
Total(clusters) ==
    IF clusters = <<>> THEN UInt32(0)
    ELSE AddUInt32(Total(SubSeq(clusters, 1, Len(clusters) - 1)),
                   clusters[Len(clusters)].Weight)

\* weightedClusters that keeps a total of 0 and the weights as declared.
weightedClustersNoDefault(clusters) ==
    [Clusters |-> Stable([i \in DOMAIN clusters |->
                              [Name |-> clusters[i].Name, Weight |-> clusters[i].Weight]]),
     TotalWeight |-> Total(clusters)]

weightedClusters(clusters) ==
    LET total == Total(clusters)
        wc == [i \in DOMAIN clusters |->
                  [Name |-> clusters[i].Name,
                   Weight |-> IF total = UInt32(0) THEN 1 ELSE clusters[i].Weight]]
    IN  [Clusters |-> Stable(wc),
         TotalWeight |-> IF total = UInt32(0) THEN UInt32(Len(clusters)) ELSE total]

\* envoy.RouteRoute: the RouteAction of a route, its timeout and its cluster
\* or weighted clusters.
RouteRoute(r) ==
    [Timeout |-> timeout(r),
     ClusterSpecifier |->
        IF Len(r.Clusters) = 1
        THEN [Cluster |-> r.Clusters[1].Name]
        ELSE [WeightedClusters |-> weightedClusters(r.Clusters)]]

\* A caller's envoy.RouteRoute(route).
CallRouteRoute ==
    /\ ra = NoAction
    /\ ra' = RouteRoute(route)
    /\ UNCHANGED <<condVars, ehVars, kcVars, producerVars, handlerVars,
                   DisablePermitInsecure, values, resp, route>>

InitRoute ==
    /\ InitCond
    /\ InitHandler(0, 0)
    /\ store = <<>>
    /\ IngressClass = ""
    /\ nilSequence = FALSE
    /\ InitQuiet
    /\ DisablePermitInsecure = FALSE
    /\ values = <<>>
    /\ resp = NoResponse
    /\ route \in Routes
    /\ ra = NoAction

NextRoute == CallRouteRoute

SpecRoute == InitRoute /\ [][NextRoute]_vars

\* ------------------------- the builder, the translator and the route cache

\* envoy.UpgradeHTTPS: the action that redirects a request to HTTPS.
UpgradeHTTPS == [Redirect |-> "HttpsRedirect"]

\* The action of a plaintext or TLS route that forwards to one cluster.
Forward(svc) == [Route |-> svc]

\* envoy.VirtualHost(hostname, routes); hashname leaves the short names of
\* the model as they are.
VirtualHost(hostname, routes) ==
    [Name |-> hostname,
     Domains |-> IF hostname # "*" THEN <<hostname, hostname \o ":*">> ELSE <<hostname>>,
     Routes |-> routes]

\* The TLS of a root resolves: a secret of its name is in the root's namespace.
TLSResolves(kc, o) ==
    \E t \in o.tls : [kind |-> "Secret", namespace |-> o.namespace, name |-> t] \in DOMAIN kc

\* HTTPSUpgrade that honours permitInsecure whatever the option says.
HTTPSUpgradeAlwaysPermit(o, svc, dpi) ==
    /\ o.tls # {}
    /\ svc \notin o.permitInsecure

\* Route.HTTPSUpgrade of the route to svc of the root o: the root has TLS, and
\* the route is not one that permitInsecure keeps, which none is when the
\* option DisablePermitInsecure (dpi) is set.
HTTPSUpgrade(o, svc, dpi) ==
    /\ o.tls # {}
    /\ ~(svc \in o.permitInsecure /\ ~dpi)

\* The virtual hosts an object of the store puts on the plaintext listener:
\* an Ingress its default backend under "*" and the paths of its rule under
\* the rule's host, a root its routes under its fqdn.
HTTPVirtualHosts(o, dpi) ==
    IF o.kind = "Ingress"
    THEN (IF o.backend = {} THEN {}
          ELSE {VirtualHost("*", {[Match |-> "/", Action |-> Forward(svc)] :
                                      svc \in o.backend})})
         \cup (IF o.paths = {} THEN {}
               ELSE {VirtualHost(o.host, {[Match |-> "/", Action |-> Forward(svc)] :
                                             svc \in o.paths})})
    ELSE IF o.kind \in {"IngressRoute", "HTTPProxy"} /\ o.routes # {}
    THEN {VirtualHost(o.fqdn,
              {[Match |-> "/" \o svc,
                Action |-> IF HTTPSUpgrade(o, svc, dpi) THEN UpgradeHTTPS ELSE Forward(svc)] :
                   svc \in o.routes})}
    ELSE {}

\* The virtual hosts a root with TLS puts on the TLS listener, when its secret
\* is there: every route forwards.
HTTPSVirtualHosts(kc, o) ==
    IF o.kind \in {"IngressRoute", "HTTPProxy"} /\ o.routes # {} /\ TLSResolves(kc, o)
    THEN {VirtualHost(o.fqdn,
              {[Match |-> "/" \o svc, Action |-> Forward(svc)] : svc \in o.routes})}
    ELSE {}

\* Builder.Build and the visit of the DAG for the route cache: the route
\* configuration of each listener, made of the store alone.
Visit(kc, dpi) ==
    [n \in {"ingress_http", "ingress_https"} |->
        IF n = "ingress_http"
        THEN UNION {HTTPVirtualHosts(kc[k], dpi) : k \in DOMAIN kc}
        ELSE UNION {HTTPSVirtualHosts(kc, kc[k]) : k \in DOMAIN kc}]

\* An Update that adds the new virtual hosts to those the cache has.
UpdateMerge(old, v) ==
    [n \in DOMAIN v |-> v[n] \cup (IF n \in DOMAIN old THEN old[n] ELSE {})]

\* The cache's Update(v): v replaces the contents.
Update(old, v) == v

\* The entry of the cache of the name n.
Entry(c, n) == [Name |-> n, VirtualHosts |-> c[n]]

\* The cache's Contents(): every entry.
Contents(c) == {Entry(c, n) : n \in DOMAIN c}

\* A Query that answers a name the cache does not have with an empty entry.
QueryBlank(c, names) ==
    {IF n \in DOMAIN c THEN Entry(c, n) ELSE [Name |-> n, VirtualHosts |-> {}] : n \in names}

\* The cache's Query(names): the entries of these names.
Query(c, names) == {Entry(c, n) : n \in names \cap DOMAIN c}

\* The objects the store of SpecXds holds from the start, which the events
\* leave alone: the services and the secret the other objects name.
XdsFixed == {Service("kuard"), Service("svc2"), Secret("kubernetes.io/tls", {"tls.crt"})}

\* An Ingress with a default backend and the Ingress of that name with a rule
\* for a host instead.
XdsIngresses ==
    {[Ingress("kuard", NoAnnotations, 1) EXCEPT !.backend = {"kuard"}],
     [Ingress("kuard", NoAnnotations, 1) EXCEPT !.paths = {"kuard"},
                                               !.host = "kuard.db.gd-ms.com"]}

\* The root of the kind k with two routes, of which those of pi are marked
\* permitInsecure, and with the TLS tl.
XdsRoot(k, pi, tl) ==
    [Root(k, "", 1) EXCEPT !.fqdn = IF k = "IngressRoute" THEN "test2.test.com"
                                                         ELSE "proxy.test.com",
                           !.routes = {"kuard", "svc2"},
                           !.permitInsecure = pi,
                           !.tls = tl]

XdsRoots ==
    {XdsRoot("IngressRoute", pi, tl) : pi \in SUBSET {"kuard", "svc2"}, tl \in SUBSET {"secret"}}
    \cup {XdsRoot("HTTPProxy", {}, {}), XdsRoot("HTTPProxy", {"kuard"}, {"secret"})}

XdsObjects == XdsIngresses \cup XdsRoots

\* The events an informer sends about these objects: the add of an object that
\* is not there, the update and the delete of the one that is.
XdsOps(kc) ==
    {o \in [type : {"add"}, obj : XdsObjects] : Key(o.obj) \notin DOMAIN kc}
    \cup {o \in [type : {"delete"}, obj : XdsObjects] :
              Key(o.obj) \in DOMAIN kc /\ kc[Key(o.obj)] = o.obj}
    \cup {o \in [type : {"update"}, oldObj : XdsObjects, newObj : XdsObjects] :
              /\ Key(o.oldObj) \in DOMAIN kc
              /\ kc[Key(o.oldObj)] = o.oldObj
              /\ Key(o.newObj) = Key(o.oldObj)
              /\ o.newObj # o.oldObj}

\* The resource_names of a request: none, a listener's, one the cache has
\* with one it has not, and one it has not.
ResourceNames ==
    {{}, {"ingress_http"}, {"ingress_https", "unknown"}, {"unknown"}}

\* An event with the rebuild that follows it: onUpdate, and when the store
\* took the event, CacheHandler.OnChange with the new DAG, which updates the
\* route cache.
OnChange(o) ==
    LET r == onUpdate(store, o)
    IN  /\ store' = r.kc
        /\ values' = IF r.ok THEN Update(values, Visit(r.kc, DisablePermitInsecure))
                              ELSE values
        /\ UNCHANGED <<condVars, config, loopVars, kcVars, producerVars, handlerVars,
                       DisablePermitInsecure, resp, route, ra>>

\* A discovery request with the resource_names names is answered from the
\* cache: with its contents, or with the entries named.
Request(names) ==
    /\ resp' = [sent |-> TRUE, names |-> names,
                resources |-> IF names = {} THEN Contents(values) ELSE Query(values, names)]
    /\ UNCHANGED <<condVars, ehVars, kcVars, producerVars, handlerVars,
                   DisablePermitInsecure, values, route, ra>>

InitXds ==
    /\ InitCond
    /\ InitHandler(0, 0)
    /\ store = StoreOf(XdsFixed)
    /\ IngressClass = ""
    /\ nilSequence = FALSE
    /\ InitQuiet
    /\ DisablePermitInsecure \in BOOLEAN
    /\ values = <<>>
    /\ resp = NoResponse
    /\ route = NoRoute
    /\ ra = NoAction

NextXds ==
    \/ \E o \in XdsOps(store) : OnChange(o)
    \/ \E names \in ResourceNames : Request(names)

SpecXds == InitXds /\ [][NextXds]_vars

\* ------------------------------------------------------- claims on Cond

\* C1: the versions delivered to a stream that starts with last_version 0 and
\* registers with the version it last received are strictly increasing: each
\* is greater than the one registered with (0 at first, then the previous
\* delivery); gaps are allowed, repeats and decreases are not.
C1_StrictlyIncreasing ==
    \A s \in Streams :
        \A i \in 1..Len(seen[s]) :
            seen[s][i] > (IF i = 1 THEN 0 ELSE seen[s][i - 1])

\* A stream that saw version 3 directly after version 1.
C1_Witness ==
    \E s \in Streams : seen[s] = <<1, 3>>

\* C2: Cond.last never decreases: a Notify adds exactly 1 to it and no other
\* operation changes it.
C2_LastMonotonic ==
    [][IF op'.name = "Notify" THEN last' = last + 1 ELSE last' = last]_vars

\* A second Notify has run.
C2_Witness ==
    op.name = "Notify" /\ last = 2

\* C3: Register(ch, l) with l below Cond.last sends Cond.last on ch at once and
\* leaves the waiter set as it was; with l equal to or above Cond.last it puts
\* ch in the waiter set (with its hints) and sends nothing.
C3_RegisterRendezvous ==
    [][op'.name \in {"Register", "StreamRegister"} =>
          LET c == op'.ch
              l == op'.last
          IN  IF l < last
              THEN /\ ch' = [ch EXCEPT ![c] = Append(@, last)]
                   /\ waiters' = waiters
                   /\ c \notin DOMAIN waiters'
              ELSE /\ ch' = ch
                   /\ DOMAIN waiters' = DOMAIN waiters \cup {c}
                   /\ waiters'[c] = op'.hints
                   /\ \A x \in DOMAIN waiters \ {c} : waiters'[x] = waiters[x]]_vars

\* A Register that fired at once, one that enqueued with l equal to Cond.last
\* and one that enqueued with l above it.
C3_Witness ==
    /\ op.name = "Register"
    /\ op.last > last
    /\ op.ch \in DOMAIN waiters
    /\ \E s \in Streams : pc[s] = "select" /\ ch[s] # <<>> /\ s \notin DOMAIN waiters
    /\ \E s \in Streams : pc[s] = "select" /\ ch[s] = <<>> /\ s \in DOMAIN waiters
                            /\ lastVersion[s] = last

\* C4: Notify(h) sends the new version exactly once to each registered waiter
\* that has no hints or has a hint in h, and deregisters exactly those; every
\* other waiter receives nothing and stays registered with its hints.
C4_NotifyDelivers ==
    [][op'.name = "Notify" =>
          LET h == op'.hints
              m == {c \in DOMAIN waiters :
                       waiters[c] = {} \/ \E x \in waiters[c] : x \in h}
          IN  /\ \A c \in m : ch'[c] = Append(ch[c], last + 1)
              /\ \A c \in Channels \ m : ch'[c] = ch[c]
              /\ DOMAIN waiters' = DOMAIN waiters \ m
              /\ \A c \in DOMAIN waiters' : waiters'[c] = waiters[c]]_vars

\* After a Notify with a hint: a hinted waiter it served, and a waiter with
\* another hint still registered and with nothing in its channel.
C4_Witness ==
    /\ op.name = "Notify"
    /\ op.hints = {"a"}
    /\ ch["s1"] = <<last>> /\ "s1" \notin DOMAIN waiters /\ pc["s1"] = "select"
    /\ "s2" \in DOMAIN waiters /\ waiters["s2"] = {"b"} /\ ch["s2"] = <<>>

\* C5: with channels of capacity >= 1 that are empty when registered, no
\* Register and no Notify blocks in a send while holding the mutex, also when
\* a waiter never reads its channel.
C5_NeverBlocks ==
    blocked = "none"

\* Notify has run again after a waiter that never reads was served, and
\* after a stream that was served went away without reading.
C5_Witness ==
    /\ op.name = "Notify"
    /\ \E r \in OneShot : ch[r] # <<>> /\ last > ch[r][1]
    /\ \E s \in Streams : pc[s] = "done" /\ ch[s] # <<>> /\ last > ch[s][1]

\* C6: a stream whose context is cancelled while its waiter is registered is
\* out of the waiter set from the cancellation on, and its loop has returned.
C6_CancelDeregisters ==
    \A s \in Streams : pc[s] = "done" => s \notin DOMAIN waiters

\* ------------------------------------------------ claims on the run loop

\* C7: when the loop accepts an event and the time since the last rebuild
\* (since Start if there was none) exceeds HoldoffMaxDelay, the rebuild is done
\* in that iteration, from the store as the event left it, and afterwards
\* outstanding is 0 and no holdoff timer is pending.
C7_ForcedRebuild ==
    [][(accepted' = accepted + 1 /\ since > HoldoffMaxDelay) =>
          /\ builds' = builds + 1
          /\ last' = last + 1
          /\ cacheContent' = store'
          /\ reflected' = accepted'
          /\ outstanding' = 0
          /\ ~pending'
          /\ timer'.state \notin {"running"}]_vars

\* A forced rebuild that took over two events waiting for a running timer.
C7_Witness ==
    /\ step = StepOp("update", "add", TRUE, 3)
    /\ timer.state = "stopped"
    /\ outstanding = 0
    /\ builds = 1
    /\ cacheContent = store

\* C8: when the loop accepts an event and the time since the last rebuild does
\* not exceed HoldoffMaxDelay, that iteration rebuilds nothing: the timer is
\* replaced by one armed for HoldoffDelay; and the iteration that receives from
\* the timer, which has then fired, rebuilds.
C8_DeferredRebuild ==
    [][/\ (accepted' = accepted + 1 /\ since <= HoldoffMaxDelay) =>
              /\ builds' = builds
              /\ last' = last
              /\ cacheContent' = cacheContent
              /\ seq' = seq
              /\ outstanding' = outstanding + 1
              /\ pending'
              /\ timer'.rem = HoldoffDelay
              /\ timer'.state = IF HoldoffDelay = 0 THEN "fired" ELSE "running"
       /\ step'.branch = "pending" =>
              /\ pending /\ timer.state = "fired"
              /\ builds' = builds + 1
              /\ cacheContent' = store]_vars

\* An event that replaced a timer that had run for a tick (or had fired) by a
\* fresh one, with no rebuild so far.
C8_Witness ==
    /\ step = StepOp("update", "update", TRUE, 0)
    /\ HoldoffDelay = 2
    /\ timer = [state |-> "running", rem |-> 2]
    /\ since >= 1
    /\ outstanding = 2
    /\ builds = 0

\* C9: k >= 1 accepted events, none of them later than HoldoffMaxDelay after the
\* last rebuild, make one rebuild: none is made by the events themselves, and
\* the one made when the timer is received covers all k (outstanding is k, the
\* number of accepted events not yet rebuilt), bumps the cache version once and
\* leaves nothing outstanding; nothing else rebuilds.
C9_BurstOneRebuild ==
    [][/\ (accepted' = accepted + 1 /\ since <= HoldoffMaxDelay) =>
              builds' = builds /\ last' = last
       /\ step'.branch = "pending" =>
              /\ outstanding >= 1
              /\ outstanding = accepted - reflected
              /\ builds' = builds + 1
              /\ last' = last + 1
              /\ reflected' = accepted
              /\ cacheContent' = store
              /\ outstanding' = 0
       /\ (builds' # builds \/ last' # last) =>
              \/ step'.branch = "pending"
              \/ accepted' = accepted + 1 /\ since > HoldoffMaxDelay]_vars

\* A burst of three events rebuilt once, by the timer.
C9_Witness ==
    /\ step = Step("pending", FALSE, 3)
    /\ builds = 1
    /\ last = 1
    /\ reflected = 3
    /\ store # <<>>
    /\ cacheContent = store

\* C10: every accepted event is eventually covered by a rebuild, unless the
\* loop has returned; and an accepted event later than HoldoffMaxDelay after
\* the last rebuild is covered at once, whatever timer is running.
C10_EventuallyRebuilt ==
    /\ \A n \in 1..MaxEvents :
           (accepted >= n) ~> (reflected >= n \/ loop = "returned")
    /\ [][(accepted' = accepted + 1 /\ since > HoldoffMaxDelay) =>
              reflected' = accepted']_vars

\* Every event reset the running timer, and the last one, later than
\* HoldoffMaxDelay after Start, forced the rebuild.
C10_Witness ==
    /\ step.branch = "update" /\ step.changed
    /\ step.outstanding = MaxEvents
    /\ HoldoffDelay > 0
    /\ reflected = MaxEvents
    /\ builds = 1

\* C12: an OnAdd whose object Insert rejects (it returns false) rebuilds
\* nothing, bumps no cache version, and leaves the time of the last rebuild,
\* outstanding and the holdoff timer, pending or not, as they were.
C12_RejectedAddNoRebuild ==
    [][(nEvents' = nEvents + 1 /\ step'.type = "add" /\ accepted' = accepted) =>
          /\ builds' = builds
          /\ cacheContent' = cacheContent
          /\ last' = last
          /\ since' = since
          /\ outstanding' = outstanding
          /\ timer' = timer
          /\ pending' = pending]_vars

\* A rejected add received while the timer of two accepted events is running.
C12_Witness ==
    /\ step = StepOp("update", "add", FALSE, 0)
    /\ nEvents = 3
    /\ accepted = 2
    /\ outstanding = 2
    /\ pending
    /\ timer.state = "running"
    /\ builds = 0
    /\ last = 0

\* C13: every rebuild, forced by an event or made on the timer, sets the time
\* of the last rebuild to now, leaves outstanding at 0, and adds exactly 1 to
\* the sequence counter.
C13_AfterRebuild ==
    [][builds' # builds =>
          /\ builds' = builds + 1
          /\ since' = 0
          /\ outstanding' = 0
          /\ seq' = seq + 1]_vars

\* A rebuild forced by the third event, some ticks after the rebuild on the
\* timer of the first.
C13_Witness ==
    /\ step = StepOp("update", "add", TRUE, 2)
    /\ HoldoffMaxDelay > HoldoffDelay
    /\ builds = 2
    /\ seq = 2
    /\ since = 0
    /\ outstanding = 0

\* C15: seq counts the events the loop has received: each of them, rebuilt at
\* once, deferred to the timer or rejected, adds exactly 1 to seq, so seq is
\* the number of events received whenever none is outstanding.
C15_SeqCountsEvents ==
    outstanding = 0 => seq = nEvents

\* C14: the send of the sequence number never blocks the run loop: with a nil
\* Sequence, or with a full buffer and no receiver, the number is dropped, the
\* iteration completes, and the loop can take every further event and timer.
C14_SequenceNeverBlocks ==
    /\ [][seq' # seq =>
              /\ seq' = seq + 1
              /\ loop' = "select"
              /\ Sequence' = IF ~nilSequence /\ Len(Sequence) < SequenceCap
                             THEN Append(Sequence, seq')
                             ELSE Sequence]_vars
    /\ []((loop = "select" /\ pending /\ timer.state = "fired") => ENABLED RunPending)
    /\ []((loop = "select" /\ nEvents < MaxEvents) => \A o \in Ops : ENABLED RunUpdate(o))

\* With a nil Sequence the loop made a rebuild on the timer and then took two
\* more events, the last of them rejected; both numbers were dropped.
C14_Witness ==
    /\ nilSequence
    /\ Sequence = <<>>
    /\ seq = 2
    /\ builds = 1
    /\ nEvents = 3
    /\ step = StepOp("update", "delete", FALSE, 0)

\* C11: an OnUpdate whose old and new objects differ only in status and
\* resourceVersion (every update of StatusOps), of an IngressRoute or of an
\* HTTPProxy, leaves the store as it was, is not accepted for a rebuild, and
\* rebuilds nothing and bumps no cache version.
C11_StatusUpdateIgnored ==
    [][(nEvents' = nEvents + 1 /\ step'.type = "update") =>
          /\ store' = store
          /\ accepted' = accepted
          /\ outstanding' = outstanding
          /\ builds' = builds
          /\ last' = last]_vars

\* ------------------------------------------------ claims on the cache

\* C18: Insert returns true exactly when it stored the object: after an Insert
\* that returned false the object is not in the store, and after an Insert
\* that stored the object the result is true.
C18_InsertTrueIffStored ==
    kcOp.name = "Insert" =>
        (kcOp.ok <=> /\ Key(kcOp.obj) \in DOMAIN store
                     /\ store[Key(kcOp.obj)] = kcOp.obj)

\* C19: Insert stores a Secret exactly when its type is kubernetes.io/tls or
\* its data has a ca.crt entry and it is no service account token; a service
\* account token is not stored even with a ca.crt entry. A secret that is not
\* stored leaves the store as it was and makes Insert return false.
C19_SecretFilter ==
    [][(kcOp'.name = "Insert" /\ kcOp'.obj.kind = "Secret") =>
          LET o == kcOp'.obj
          IN  IF /\ o.type = "kubernetes.io/tls" \/ "ca.crt" \in o.data
                 /\ o.type # "kubernetes.io/service-account-token"
              THEN store' = Put(store, o)
              ELSE store' = store /\ ~kcOp'.ok]_vars

\* An Opaque secret with a ca.crt entry, stored by Insert as the only object
\* of the cache.
C19_Witness ==
    /\ kcOp = [name |-> "Insert", obj |-> Secret("Opaque", {"ca.crt"}), ok |-> TRUE,
               again |-> FALSE]
    /\ DOMAIN store = {Key(kcOp.obj)}
    /\ store[Key(kcOp.obj)] = kcOp.obj

\* C20 as stated: Insert stores an Ingress, IngressRoute or HTTPProxy exactly
\* when none of the three ingress-class annotations is present or the value of
\* the first one present, in the order of AnnotationKeys, equals the configured
\* class (contour when none is configured).
C20_ClassFilterAsStated ==
    [][kcOp'.name = "Insert" =>
          LET o == kcOp'.obj
              present == {i \in 1..3 : AnnotationKeys[i] \in DOMAIN o.annotations}
              first == CHOOSE i \in present : \A j \in present : i <= j
              configured == IF IngressClass = "" THEN "contour" ELSE IngressClass
          IN  IF \/ present = {}
                 \/ o.annotations[AnnotationKeys[first]] = configured
              THEN store' = Put(store, o) /\ kcOp'.ok
              ELSE store' = store /\ ~kcOp'.ok]_vars

\* C20, amended: Insert stores an Ingress, IngressRoute or HTTPProxy exactly
\* when none of the three ingress-class annotations is present, or the value
\* of the first one present, in the order of AnnotationKeys, is empty or equals
\* the configured class (contour when none is configured); later keys are
\* not looked at.
C20_ClassFilter ==
    [][kcOp'.name = "Insert" =>
          LET o == kcOp'.obj
              present == {i \in 1..3 : AnnotationKeys[i] \in DOMAIN o.annotations}
              first == CHOOSE i \in present : \A j \in present : i <= j
              configured == IF IngressClass = "" THEN "contour" ELSE IngressClass
          IN  IF \/ present = {}
                 \/ o.annotations[AnnotationKeys[first]] = ""
                 \/ o.annotations[AnnotationKeys[first]] = configured
              THEN store' = Put(store, o) /\ kcOp'.ok
              ELSE store' = store /\ ~kcOp'.ok]_vars

\* With the class linkerd configured, an HTTPProxy whose second annotation
\* says linkerd and whose third says contour is stored.
C20_Witness ==
    /\ IngressClass = "linkerd"
    /\ kcOp.name = "Insert"
    /\ kcOp.ok
    /\ kcOp.obj.kind = "HTTPProxy"
    /\ kcOp.obj.annotations =
           (AnnotationKeys[2] :> "linkerd") @@ (AnnotationKeys[3] :> "contour")
    /\ store[Key(kcOp.obj)] = kcOp.obj

\* ------------------------------- claims on the producers and the loop

\* C16: only the run loop is ever inside Insert, Remove or Build, and in one
\* of them at a time: the store changes only while the loop is in onUpdate,
\* a rebuild is made only while it is in Build, and no producer is in either,
\* however the calls of OnAdd, OnUpdate and OnDelete interleave.
C16_SingleWriter ==
    /\ [](active \subseteq {InOnUpdate, InBuild} /\ Cardinality(active) <= 1)
    /\ [][/\ store' # store => active = {InOnUpdate}
          /\ builds' # builds => active = {InBuild}]_vars

\* Both producers are inside their calls while the loop is in Build.
C16_Witness ==
    /\ loop = "building"
    /\ active = {InBuild}
    /\ \A p \in Producers : ppc[p] = "sending"
    /\ store # <<>>

\* C17: the loop applies the events to the store one at a time, in the order
\* it received them; a producer's call returns only in the step in which the
\* loop receives its event; and the events of each producer are applied in
\* the order it issued them, each once and none missing.
C17_FifoPerProducer ==
    /\ [](\A p \in Producers :
             LET Mine(e) == e.producer = p
                 k == IF cur.producer = p /\ loop \in {"onUpdate", "mutating"}
                      THEN sent[p] - 1 ELSE sent[p]
             IN  SelectSeq(applied, Mine) = [i \in 1..k |-> [producer |-> p, n |-> i]])
    /\ [][\A p \in Producers :
              (ppc[p] = "sending" /\ ppc'[p] # "sending") =>
                  /\ loop = "select"
                  /\ sent'[p] = sent[p] + 1
                  /\ cur' = [producer |-> p, n |-> sent'[p]]
                  /\ nEvents' = nEvents + 1]_vars
    /\ [][cur' # cur => (cur = NoEvent \/ (applied # <<>> /\ applied[Len(applied)] = cur))]_vars
    /\ [][applied' # applied =>
              /\ applied' = Append(applied, cur)
              /\ store' = onUpdate(store, Program[cur.producer][cur.n]).kc]_vars

\* Both producers have returned from all their calls, and the loop has
\* applied their events interleaved.
C17_Witness ==
    /\ \A p \in Producers : ppc[p] = "done"
    /\ loop = "select"
    /\ applied = <<[producer |-> "p2", n |-> 1], [producer |-> "p1", n |-> 1],
                   [producer |-> "p2", n |-> 2], [producer |-> "p1", n |-> 2]>>

\* ----------------------------------- claims on the cache (continued)

\* C21: serviceTriggersRebuild(svc), the result of Insert(svc), is true exactly
\* when the store holds an Ingress that names svc in its backend or in a rule
\* path, or an IngressRoute or HTTPProxy that names it in a route or in its
\* TCPProxy, in the namespace of svc; objects of other namespaces do not count.
C21_ServiceTriggers ==
    [][(kcOp'.name = "Insert" /\ kcOp'.obj.kind = "Service") =>
          LET svc == kcOp'.obj
              named(o) == IF o.kind = "Ingress"
                          THEN o.backend \cup o.paths
                          ELSE o.routes \cup o.tcpproxy
              refs == {k \in DOMAIN store :
                          /\ k.kind \in {"Ingress", "IngressRoute", "HTTPProxy"}
                          /\ k.namespace = svc.namespace
                          /\ svc.name \in named(store[k])}
          IN  kcOp'.ok = (refs # {})]_vars

\* Insert of default/kuard returned false although the Ingress, IngressRoute
\* and HTTPProxy of the namespace other name kuard: the three of default name
\* no service or another one.
C21_Witness ==
    /\ kcOp.name = "Insert"
    /\ kcOp.obj = Service("kuard")
    /\ ~kcOp.ok
    /\ \A k \in {"Ingress", "IngressRoute", "HTTPProxy"} :
           /\ Key(Referrer(k, "other", "first")) \in DOMAIN store
           /\ Key(Referrer(k, "default", "web")) \in DOMAIN store
           /\ "kuard" \in (IF k = "Ingress"
                             THEN store[Key(Referrer(k, "other", "first"))].backend
                                  \cup store[Key(Referrer(k, "other", "first"))].paths
                             ELSE store[Key(Referrer(k, "other", "first"))].routes
                                  \cup store[Key(Referrer(k, "other", "first"))].tcpproxy)

\* C22: secretTriggersRebuild(sec), the result of Insert(sec), is true exactly
\* when sec has a ca.crt entry, or the TLS of an Ingress, IngressRoute or
\* HTTPProxy of sec's namespace names sec, or the TLS of one of another
\* namespace N names it as namespace/name and a TLSCertificateDelegation of
\* sec (in sec's namespace, with sec's name) has N or * among its targets.
C22_SecretTriggers ==
    [][(kcOp'.name = "Insert" /\ kcOp'.obj.kind = "Secret") =>
          LET sec == kcOp'.obj
              full == sec.namespace \o "/" \o sec.name
              users == {k \in DOMAIN store :
                           k.kind \in {"Ingress", "IngressRoute", "HTTPProxy"}}
              delegated(n) ==
                  \E k \in DOMAIN store :
                      /\ k.kind \in {"IRDelegation", "ProxyDelegation"}
                      /\ k.namespace = sec.namespace
                      /\ \E cd \in store[k].delegations :
                             /\ cd.secretName = sec.name
                             /\ n \in cd.targetNamespaces \/ "*" \in cd.targetNamespaces
          IN  kcOp'.ok =
                 \/ "ca.crt" \in sec.data
                 \/ \E k \in users : k.namespace = sec.namespace /\ sec.name \in store[k].tls
                 \/ \E k \in users : /\ k.namespace # sec.namespace
                                      /\ full \in store[k].tls
                                      /\ delegated(k.namespace)]_vars

\* C23: Remove(obj) deletes the entry of obj's kind, namespace and name and
\* leaves every other entry alone; it returns true iff that entry was there;
\* the Remove of the same object right after it returns false; and the Remove
\* of a tombstone does and returns what the Remove of the wrapped object does.
C23_Remove ==
    [][kcOp'.name = "Remove" =>
          LET o == IF kcOp'.obj.kind = "DeletedFinalStateUnknown"
                   THEN kcOp'.obj.Obj ELSE kcOp'.obj
              m == [kind |-> o.kind, namespace |-> o.namespace, name |-> o.name]
          IN  /\ kcOp'.ok = (m \in DOMAIN store)
              /\ DOMAIN store' = DOMAIN store \ {m}
              /\ \A k \in DOMAIN store' : store'[k] = store[k]
              /\ kcOp'.again => ~kcOp'.ok]_vars

\* A tombstone's Remove found its object among others and returned true.
C23_Witness ==
    /\ kcOp.name = "Remove"
    /\ kcOp.obj.kind = "DeletedFinalStateUnknown"
    /\ kcOp.ok
    /\ store # <<>>

\* C24: an Insert of the object that the Insert right before it was given
\* leaves the store as that one left it and returns what that one returned.
C24_InsertIdempotent ==
    [][(kcOp'.name = "Insert" /\ kcOp'.again) =>
          /\ store' = store
          /\ kcOp'.ok = kcOp.ok]_vars

\* An accepted object was inserted again, into a store that holds more.
C24_Witness ==
    /\ kcOp.name = "Insert"
    /\ kcOp.again
    /\ kcOp.ok
    /\ Key(kcOp.obj) \in DOMAIN store
    /\ DOMAIN store # {Key(kcOp.obj)}

\* --------------------------------------------- claims on the route action

\* C28: when every cluster of a route of several clusters declares the weight
\* 0, every emitted weight is 1 and the emitted total is the number of clusters.
C28_ZeroWeights ==
    (/\ ra # NoAction
     /\ Len(route.Clusters) > 1
     /\ \A i \in DOMAIN route.Clusters : route.Clusters[i].Weight = 0)
    => LET wc == ra.ClusterSpecifier.WeightedClusters
       IN  /\ Len(wc.Clusters) = Len(route.Clusters)
           /\ \A i \in DOMAIN wc.Clusters : wc.Clusters[i].Weight = 1
           /\ wc.TotalWeight = UInt32(Len(route.Clusters))

\* Three clusters of weight 0 were translated.
C28_Witness ==
    /\ ra # NoAction
    /\ Len(route.Clusters) = 3
    /\ \A i \in DOMAIN route.Clusters : route.Clusters[i].Weight = 0

\* C29: the weighted clusters are emitted in ascending order of their names,
\* and of their weights among equal names; they are the declared clusters, and
\* every order of declaring them gives the same result.
C29_SortedClusters ==
    (ra # NoAction /\ Len(route.Clusters) > 1)
    => LET wc == ra.ClusterSpecifier.WeightedClusters
           n == Len(route.Clusters)
       IN  /\ Len(wc.Clusters) = n
           /\ \A i, j \in 1..n :
                  i < j => \/ StringLess(wc.Clusters[i].Name, wc.Clusters[j].Name)
                           \/ /\ wc.Clusters[i].Name = wc.Clusters[j].Name
                              /\ wc.Clusters[i].Weight <= wc.Clusters[j].Weight
           /\ \E p \in [1..n -> 1..n] :
                  /\ \A i, j \in 1..n : i # j => p[i] # p[j]
                  /\ \A i \in 1..n : wc.Clusters[i].Name = route.Clusters[p[i]].Name
           /\ \A p \in [1..n -> 1..n] :
                  (\A i, j \in 1..n : i # j => p[i] # p[j])
                  => weightedClusters([i \in 1..n |-> route.Clusters[p[i]]]) = wc

\* A route was translated that declares a name twice, the larger weight first,
\* behind a cluster of a greater name.
C29_Witness ==
    /\ ra # NoAction
    /\ Len(route.Clusters) = 3
    /\ route.Clusters[1].Name = ClusterNames[2]
    /\ route.Clusters[2].Name = ClusterNames[1]
    /\ route.Clusters[3].Name = ClusterNames[1]
    /\ route.Clusters[2].Weight > route.Clusters[3].Weight
    /\ route.Clusters[3].Weight > 0

\* C30: a route without a timeout policy, or with the timeout 0, gets no
\* timeout; the timeout -1 gets the duration zero, set; any other timeout is
\* emitted as it is.
C30_Timeout ==
    ra # NoAction =>
        IF route.TimeoutPolicy = Nil THEN ra.Timeout = Nil
        ELSE LET t == route.TimeoutPolicy.Timeout
             IN  CASE t = 0 -> ra.Timeout = Nil
                   [] t = -1 -> ra.Timeout # Nil /\ ra.Timeout.Duration = 0
                   [] OTHER -> ra.Timeout # Nil /\ ra.Timeout.Duration = t

\* A route of infinite timeout was translated.
C30_Witness ==
    /\ ra # NoAction
    /\ route.TimeoutPolicy = [Timeout |-> -1]
    /\ ra.Timeout = [nil |-> FALSE, Duration |-> 0]

\* ------------------------------------------- claims on the route cache

\* C25: a response to a request without resource_names carries every entry the
\* cache has at that moment, and a rebuild replaces the contents as a whole:
\* every virtual host in the cache comes from an object that the store holds
\* now, as that object is now.
C25_WholeSnapshot ==
    /\ [](\A n \in DOMAIN values : \A vh \in values[n] :
             \E k \in DOMAIN store :
                 LET o == store[k]
                 IN  \/ /\ o.kind = "Ingress"
                        /\ n = "ingress_http"
                        /\ \/ vh.Name = "*" /\ o.backend # {}
                           \/ vh.Name = o.host /\ o.paths # {}
                     \/ /\ o.kind \in {"IngressRoute", "HTTPProxy"}
                        /\ vh.Name = o.fqdn
                        /\ {r.Match : r \in vh.Routes} = {"/" \o svc : svc \in o.routes}
                        /\ n = "ingress_https" => o.tls # {})
    /\ [][(resp' # resp /\ resp'.names = {}) =>
             /\ {e.Name : e \in resp'.resources} = DOMAIN values
             /\ \A e \in resp'.resources : e.VirtualHosts = values[e.Name]]_vars

\* The Ingress with the default backend was edited to name a host, and a
\* request without names got the new virtual host and not the one of "*".
C25_Witness ==
    /\ [kind |-> "Ingress", namespace |-> "default", name |-> "kuard"] \in DOMAIN store
    /\ store[[kind |-> "Ingress", namespace |-> "default", name |-> "kuard"]].host
           = "kuard.db.gd-ms.com"
    /\ resp.sent
    /\ resp.names = {}
    /\ \E e \in resp.resources :
           /\ e.Name = "ingress_http"
           /\ e.VirtualHosts = values["ingress_http"]
           /\ \E vh \in e.VirtualHosts : vh.Name = "kuard.db.gd-ms.com"
           /\ \A vh \in e.VirtualHosts : vh.Name # "*"

\* C26: a request with resource_names gets the entries of the cache whose
\* names are in the list and nothing else, nothing for a name the cache does
\* not have; a request without resource_names gets every entry.
C26_Filter ==
    [][resp' # resp =>
          LET has == {n \in DOMAIN values : resp'.names = {} \/ n \in resp'.names}
          IN  /\ Cardinality(resp'.resources) = Cardinality(has)
              /\ \A n \in has :
                     [Name |-> n, VirtualHosts |-> values[n]] \in resp'.resources]_vars

\* A request for a name the cache has and one it has not got the one entry.
C26_Witness ==
    /\ resp.names = {"ingress_https", "unknown"}
    /\ Cardinality(resp.resources) = 1
    /\ \E e \in resp.resources : e.Name = "ingress_https" /\ e.VirtualHosts # {}

\* C27: once the cache is built, a root with TLS has each of its routes on
\* the plaintext listener as a redirect to HTTPS, but for the routes marked
\* permitInsecure, which forward as long as DisablePermitInsecure is not set;
\* and it has each of its routes on the TLS listener, forwarding.
C27_Redirect ==
    \A k \in DOMAIN store :
        (/\ store[k].kind \in {"IngressRoute", "HTTPProxy"}
         /\ store[k].tls # {}
         /\ values # <<>>)
        => LET o == store[k]
               permit(svc) == svc \in o.permitInsecure /\ ~DisablePermitInsecure
           IN  /\ \E vh \in values["ingress_http"] :
                      /\ vh.Name = o.fqdn
                      /\ vh.Routes =
                            {[Match |-> "/" \o svc,
                              Action |-> IF permit(svc) THEN [Route |-> svc]
                                         ELSE [Redirect |-> "HttpsRedirect"]] :
                                 svc \in o.routes}
               /\ \E vh \in values["ingress_https"] :
                      /\ vh.Name = o.fqdn
                      /\ vh.Routes =
                            {[Match |-> "/" \o svc, Action |-> [Route |-> svc]] :
                                 svc \in o.routes}

\* With DisablePermitInsecure set, the cache was built of a root with TLS and
\* a route marked permitInsecure.
C27_Witness ==
    /\ DisablePermitInsecure
    /\ values # <<>>
    /\ \E k \in DOMAIN store :
           /\ store[k].kind = "IngressRoute"
           /\ store[k].tls # {}
           /\ store[k].permitInsecure = {"kuard"}

\* ------------------------------------ claims on the run loop (continued)

\* C31: a status write that fails during a rebuild is skipped: the rebuild
\* still attempts the write of every status, sets e.last (the time since the
\* last rebuild is 0 again), bumps seq and leaves the loop in its select, and
\* the loop returns on stop only, so later events are still processed.
C31_StatusFailureSkipped ==
    [][/\ builds' = builds + 1 =>
              /\ statusLog'.attempted = statusLog'.statuses
              /\ since' = 0
              /\ seq' = seq + 1
              /\ loop' = "select"
       /\ (loop = "select" /\ loop' = "returned") => stop]_vars

\* An update event handled after a rebuild in which the status of one of two
\* roots was not written.
C31_Witness ==
    /\ step.branch = "update"
    /\ builds = 1
    /\ Cardinality(statusLog.attempted) = 2
    /\ Cardinality(statusLog.failed) = 1
    /\ seq >= 1
    /\ loop = "select"

\* C32: once the stop channel is closed the loop returns in the end, and from
\* its return on nothing is put in or taken out of the store and nothing is
\* rebuilt: the store, the caches and their version, the count of rebuilds
\* and seq stay as they are.
C32_StopReturns ==
    /\ stop ~> loop = "returned"
    /\ [][loop = "returned" =>
              /\ loop' = "returned"
              /\ store' = store
              /\ cacheContent' = cacheContent
              /\ builds' = builds
              /\ last' = last
              /\ seq' = seq]_vars

\* The loop has returned on stop after a rebuild, with events left that it
\* had not received, and time has passed since.
C32_Witness ==
    /\ loop = "returned"
    /\ stop
    /\ builds = 1
    /\ nEvents < MaxEvents
    /\ step.branch = "tick"

\* ------------------------------------------- claims on the feature tests

\* Whether the insert filter lets obj into the store: the class of an
\* Ingress, IngressRoute or HTTPProxy, the type and the keys of a Secret.
PassesFilter(obj) ==
    CASE obj.kind \in {"Ingress", "IngressRoute", "HTTPProxy"} ->
            ingressClass(obj) \in {"", kcIngressClass}
      [] obj.kind = "Secret" ->
            /\ obj.type # "kubernetes.io/service-account-token"
            /\ obj.type = "kubernetes.io/tls" \/ "ca.crt" \in obj.data
      [] OTHER -> TRUE

\* Whether an object of kc, of obj's namespace, names the service or the
\* secret obj.
Referenced(kc, obj) ==
    \E k \in DOMAIN kc :
        /\ kc[k].namespace = obj.namespace
        /\ CASE kc[k].kind = "Ingress" ->
                   IF obj.kind = "Service"
                   THEN obj.name \in kc[k].backend \cup kc[k].paths
                   ELSE obj.name \in kc[k].tls
             [] kc[k].kind \in {"IngressRoute", "HTTPProxy"} ->
                   IF obj.kind = "Service"
                   THEN obj.name \in kc[k].routes \cup kc[k].tcpproxy
                   ELSE obj.name \in kc[k].tls
             [] OTHER -> FALSE

C34_NoLostWakeup ==
    \A s \in Streams :
        /\ (s \in DOMAIN waiters /\ waiters[s] = {}) => lastVersion[s] >= last
        /\ (pc[s] = "select" /\ lastVersion[s] < last) =>
               \/ ch[s] # <<>>
               \/ s \in DOMAIN waiters /\ waiters[s] # {}

\* A Notify without hints has just served a stream that had registered with
\* the version before it, while the other stream, which had missed a
\* version, got its value from Register.
C34_Witness ==
    /\ op.name = "Notify"
    /\ op.hints = {}
    /\ last = 3
    /\ pc["s1"] = "select" /\ lastVersion["s1"] = 2 /\ ch["s1"] = <<3>>
    /\ pc["s2"] = "select" /\ lastVersion["s2"] = 0 /\ ch["s2"] = <<2>>
    /\ DOMAIN waiters \cap Streams = {}

\* ------------------------------------ claims on the run loop (continued)

\* C35: while the loop is in its select, outstanding is above 0 exactly when
\* pending is the channel of a timer that is running or has fired and has not
\* been received from; so a timer that was stopped, replaced or received from
\* rebuilds nothing: the timer case only runs with events outstanding, and
\* there are never more rebuilds than accepted events.
C35_OutstandingIffTimer ==
    /\ [](loop = "select" =>
              (outstanding > 0 <=> (pending /\ timer.state \in {"running", "fired"})))
    /\ [](builds <= accepted)
    /\ [][step'.branch = "pending" =>
              /\ outstanding > 0
              /\ pending /\ timer.state = "fired"
              /\ builds' = builds + 1
              /\ builds' <= accepted]_vars

\* A timer that had fired was superseded by a forced rebuild: its value is
\* still in its channel, pending is nil, and time passes with no rebuild.
C35_Witness ==
    /\ loop = "select"
    /\ timer.state = "fired"
    /\ ~pending
    /\ outstanding = 0
    /\ builds = 1
    /\ accepted = 2
    /\ step.branch = "tick"

\* ------------------------------- claims on the feature tests (continued)

\* An object with what the claim leaves open masked: status, resourceVersion.
UpToStatus(o) ==
    IF o.kind \in {"IngressRoute", "HTTPProxy"}
    THEN [o EXCEPT !.status = 0, !.rv = 0]
    ELSE [o EXCEPT !.rv = 0]

\* C36: when the events of each key are an OnAdd, then OnUpdates whose old
\* object is the one delivered before, then an OnDelete, the store holds under
\* a key, after each event, the object delivered last for it (up to status
\* and resourceVersion) if that object passes the insert filter, and nothing
\* if it does not or if the key was deleted or never delivered.
C36_StoreFollowsInformer ==
    \A k \in {Key(o) : o \in FeatureObjects} :
        IF k \in DOMAIN informer /\ PassesFilter(informer[k])
        THEN k \in DOMAIN store /\ UpToStatus(store[k]) = UpToStatus(informer[k])
        ELSE k \notin DOMAIN store

\* The Ingress was added, updated to one of another controller's class, and
\* updated again to one without a class: it is gone after the second event
\* and back after the third.
C36_Witness ==
    /\ nEvents = 3
    /\ event.type = "update"
    /\ event.oldObj.kind = "Ingress"
    /\ ~PassesFilter(event.oldObj)
    /\ PassesFilter(event.newObj)
    /\ store = StoreOf({event.newObj})
    /\ builds >= 1

\* ----------------------------------- claims on the cache (continued)

\* C37: an Insert of an object the filter rejects (an Ingress, IngressRoute
\* or HTTPProxy of another class, a Secret that is neither tls nor holds a
\* ca.crt, a service account token) returns false and leaves every entry of
\* the store as it was, the entry of the object's own key included.
C37_RejectedInsertKeepsStore ==
    [][(kcOp'.name = "Insert" /\ ~PassesFilter(kcOp'.obj)) =>
          /\ ~kcOp'.ok
          /\ store' = store
          /\ Key(kcOp'.obj) \in DOMAIN store =>
                 /\ Key(kcOp'.obj) \in DOMAIN store'
                 /\ store'[Key(kcOp'.obj)] = store[Key(kcOp'.obj)]]_vars

\* The Ingress kuard of another controller's class was rejected while the
\* store holds the Ingress kuard and a secret put there before.
C37_Witness ==
    /\ kcOp.name = "Insert"
    /\ ~kcOp.ok
    /\ kcOp.obj.kind = "Ingress"
    /\ ~PassesFilter(kcOp.obj)
    /\ Key(kcOp.obj) \in DOMAIN store
    /\ PassesFilter(store[Key(kcOp.obj)])
    /\ Key(Secret("Opaque", {})) \in DOMAIN store

\* ---------------------------------- claims on the route action (continued)

RECURSIVE Sum(_)
\* The sum of the declared weights as a number of any size, in halves: the
\* high half is not cut off.
Sum(clusters) ==
    IF clusters = <<>> THEN [hi |-> 0, lo |-> 0]
    ELSE LET t == Sum(SubSeq(clusters, 1, Len(clusters) - 1))
             w == clusters[Len(clusters)].Weight
             lo == t.lo + (w % Half)
         IN  [hi |-> t.hi + (w \div Half) + (lo \div Half), lo |-> lo % Half]

\* C38: when a cluster of a route of several clusters declares a weight other
\* than 0, the emitted weights are the declared ones (those of each name, in
\* ascending order) and the emitted total is the sum of the declared weights,
\* whatever uint32 values they are.
C38_TotalIsSum ==
    (/\ ra # NoAction
     /\ Len(route.Clusters) > 1
     /\ \E i \in DOMAIN route.Clusters : route.Clusters[i].Weight # 0)
    => LET wc == ra.ClusterSpecifier.WeightedClusters
           Declared(n, w) ==
               Cardinality({i \in DOMAIN route.Clusters :
                               route.Clusters[i] = [Name |-> n, Weight |-> w]})
           Emitted(n, w) ==
               Cardinality({i \in DOMAIN wc.Clusters :
                               wc.Clusters[i] = [Name |-> n, Weight |-> w]})
       IN  /\ \A c \in Clusters : Emitted(c.Name, c.Weight) = Declared(c.Name, c.Weight)
           /\ wc.TotalWeight = Sum(route.Clusters)

\* ------------------------------------ claims on the run loop (continued)

\* C39: when the loop takes the stop case while events are outstanding, it
\* returns without the rebuild its timer was armed for: the step rebuilds
\* nothing and sends nothing to Sequence, and ever after the events stay
\* outstanding, the caches stay behind the accepted events, and no rebuild
\* is made and no seq given, also once the timer has fired.
C39_StopDropsPending ==
    /\ [][(loop = "select" /\ loop' = "returned" /\ outstanding > 0) =>
              /\ stop
              /\ UNCHANGED <<builds, reflected, cacheContent, last, seq, Sequence,
                             outstanding, store>>]_vars
    /\ []((loop = "returned" /\ outstanding > 0) =>
              /\ reflected = accepted - outstanding
              /\ reflected < accepted
              /\ pending)
    /\ [][(loop = "returned" /\ outstanding > 0) =>
              /\ UNCHANGED <<builds, reflected, cacheContent, last, seq, outstanding>>
              /\ Len(Sequence') <= Len(Sequence)]_vars

\* The loop returned with two events outstanding, and their timer has fired
\* since: nothing was rebuilt.
C39_Witness ==
    /\ loop = "returned"
    /\ outstanding = 2
    /\ accepted = 2
    /\ reflected = 0
    /\ builds = 0
    /\ seq = 0
    /\ pending
    /\ timer.state = "fired"
    /\ store # <<>>
    /\ cacheContent = <<>>

\* ------------------------------- claims on the feature tests (continued)

\* C40: with a handler that, after each event, receives one value from
\* Sequence (capacity 1) before it issues the next, every event gives one
\* value: at once when the event is rejected or forces the rebuild, and from
\* the timer case, HoldoffDelay later, otherwise.  So seq counts the events,
\* Sequence never holds a value nobody waits for, and the handler's receive
\* always returns in the end.
C40_OneValuePerEvent ==
    /\ waiting ~> ~waiting
    /\ [](IF waiting
          THEN Len(Sequence) + outstanding = 1
          ELSE Sequence = <<>> /\ outstanding = 0)
    /\ [](seq = IF waiting /\ Sequence = <<>> THEN nEvents - 1 ELSE nEvents)
    /\ [][nEvents' = nEvents + 1 =>
              IF ~step'.changed \/ since > HoldoffMaxDelay
              THEN Sequence' = <<seq + 1>> /\ seq' = seq + 1
              ELSE /\ Sequence' = <<>> /\ seq' = seq
                   /\ pending' /\ timer' = NewTimer(HoldoffDelay)]_vars
    /\ [][step'.branch = "pending" =>
              waiting /\ Sequence' = <<seq + 1>> /\ seq' = seq + 1]_vars

\* The handler has got the value of its third event, which waited for the
\* timer, after one that was rejected and one that forced the rebuild.
C40_Witness ==
    /\ ~waiting
    /\ nEvents = 3
    /\ seq = 3
    /\ builds = 2
    /\ accepted = 2
    /\ step.branch = "observe"
    /\ timer.state = "drained"
    /\ HoldoffDelay = 2

====
